---- MODULE Spec2Model ----
(***************************************************************************)
(* Model of the fork-aware ledger execution core of runtime/src/bank.rs:   *)
(* the Bank (one per slot), its parent chain, the batch pipeline           *)
(* (lock, age check, duplicate-signature check, load, execute, commit,     *)
(* fee collection, unlock), register_tick, freeze and squash.              *)
(*                                                                         *)
(* Accounts, StatusCache, BlockhashQueue, Runtime and the system program   *)
(* are collaborators of bank.rs whose code is not part of the source tree  *)
(* at hand; they are modelled from the specification's sections 3 and 4    *)
(* and from what the tests of bank.rs assert about them.                   *)
(***************************************************************************)
EXTENDS Integers, Sequences, FiniteSets, TLC

VARIABLES
    bank,             \* bank id -> Bank fields (live, slot, parent, hash, ...)
    blockhash_queue,  \* bank id -> BlockhashQueue
    status_cache,     \* bank id -> StatusCache (sequence of shards, active first)
    accounts,         \* the Accounts store shared by every bank (Arc<Accounts>)
    held,             \* batches locked by a caller of lock_accounts, not yet unlocked
    thr,              \* threads running process_transactions step by step
    last,             \* the last operation performed and what it returned
    ledger,           \* history: what each bank committed, and its ancestry
    ops               \* number of operations performed so far

vars == <<bank, blockhash_queue, status_cache, accounts, held, thr, last, ledger, ops>>

----------------------------------------------------------------------------
(* Bounds of the model *)

\* banks that can exist (genesis included)
MaxBanks == 4
\* operations performed in one behaviour
MaxOps == 3
\* transactions in one batch
MaxBatch == 2
\* tick height up to which register_tick is explored
MaxTicks == 4
\* batches that may be held under lock_accounts at the same time
MaxHeld == 1

(* Scaled-down stand-ins for the program's timing constants (the program   *)
(* imports them from solana_sdk::timing, bank.rs line 21).                 *)
\* max_age handed to check_age, and capacity of the blockhash queue
MAX_RECENT_BLOCKHASHES == 1
\* a status-cache shard is opened every NUM_TICKS_PER_SECOND ticks
NUM_TICKS_PER_SECOND == 2
\* genesis_block.ticks_per_slot
TicksPerSlot == 2
\* genesis_block.slots_per_epoch, stakers_slot_offset and epoch_warmup
SlotsPerEpoch == 2
StakersSlotOffset == 2
EpochWarmup == TRUE
\* shards a status cache keeps besides the active one: as many as are opened
\* while a blockhash registered in the shard's window can still pass check_age
MAX_CACHE_ENTRIES ==
    ((MAX_RECENT_BLOCKHASHES + 1) * TicksPerSlot) \div NUM_TICKS_PER_SECOND + 1

BankIds == 0 .. (MaxBanks - 1)
NoBank == -1

\* the native programs process_genesis_block registers with
\* add_native_program: solana_sdk::system_program::id(),
\* solana_sdk::bpf_loader::id() and solana_vote_api::id()
NativePrograms == {"system_program", "bpf_loader", "vote_program"}

\* Pubkeys: the mint, the bootstrap leader, its vote account, two clients,
\* the id of a program registered from outside, and the native programs
Keys == {"mint", "leader", "vote", "alice", "bob", "program"} \cup NativePrograms
\* keys transactions are built over
TxKeys == {"mint", "leader", "alice", "bob"}

\* Hash::default()
DefaultHash == << >>
\* genesis_block.hash() and the hashes handed to register_tick
GenesisHash == "genesis"
TickHashes == {"h1", "h2"}

----------------------------------------------------------------------------
(* Result<()> and Option<Result<()>> values *)

Ok == [kind |-> "Ok", index |-> 0, cause |-> ""]
Err(k) == [kind |-> k, index |-> 0, cause |-> ""]
InstructionError(i, c) == [kind |-> "InstructionError", index |-> i, cause |-> c]
None == [kind |-> "None", index |-> 0, cause |-> ""]

IsOk(r) == r.kind = "Ok"
IsErr(r) == r.kind # "Ok"

\* left fold helpers over sequences
Range(s) == {s[i] : i \in 1 .. Len(s)}

RECURSIVE SumSeq(_)
SumSeq(s) == IF s = << >> THEN 0 ELSE Head(s) + SumSeq(Tail(s))

RECURSIVE SumOver(_, _)
SumOver(f, S) ==
    IF S = {} THEN 0
    ELSE LET x == CHOOSE y \in S : TRUE IN f[x] + SumOver(f, S \ {x})

----------------------------------------------------------------------------
(* Transactions.  A CompiledInstruction is a system Move: accounts are      *)
(* indices into account_keys (1-based here), lamports the amount.           *)
(* A signed transaction carries one signature, which identifies its         *)
(* message; an unsigned one has signatures = << >>.                         *)

Message(keys, hash, fee, instrs) ==
    [account_keys |-> keys, recent_blockhash |-> hash, fee |-> fee, instructions |-> instrs]

Move(from, to, lamports) == [accounts |-> <<from, to>>, lamports |-> lamports]

\* the message of SystemTransaction::new_move(from, to, lamports, recent_blockhash, fee)
MoveMessage(from, to, lamports, hash, fee) ==
    Message(<<from, to>>, hash, fee, << Move(1, 2, lamports) >>)

\* the message of SystemTransaction::new_move_many(from, moves, recent_blockhash, fee)
MoveManyMessage(from, moves, hash, fee) ==
    Message(<<from>> \o [i \in 1 .. Len(moves) |-> moves[i][1]], hash, fee,
            [i \in 1 .. Len(moves) |-> Move(1, i + 1, moves[i][2])])

\* lamports the mint holds after genesis (genesis.lamports - bootstrap_leader_lamports)
GenesisMintLamports == 2
\* genesis_block.bootstrap_leader_lamports (at least 2, bank.rs line 279)
BootstrapLeaderLamports == 2

\* The messages clients sign.  A signature is determined by the message and
\* the signer (account_keys[0]); it is modelled by the message's position here.
Messages ==
    << MoveMessage("mint", "alice", 1, GenesisHash, 0),
       MoveMessage("mint", "bob", 2, GenesisHash, 1),
       MoveMessage("alice", "bob", 1, GenesisHash, 0),
       MoveMessage("mint", "alice", 1, "h1", 0),
       MoveMessage("leader", "bob", 1, GenesisHash, 1),
       MoveMessage("mint", "bob", 1, GenesisHash, 1),
       MoveMessage("alice", "alice", 1, GenesisHash, 0),
       MoveMessage("leader", "bob", 1, GenesisHash, 2),
       MoveManyMessage("mint", << <<"alice", 1>>, <<"bob", 1>> >>, GenesisHash, 0),
       MoveManyMessage("mint", << <<"alice", 2>>, <<"bob", 1>> >>, GenesisHash, 0),
       MoveMessage("bob", "leader", 1, GenesisHash, 0),
       MoveMessage("leader", "alice", 1, GenesisHash, 1),
       MoveManyMessage("mint", << <<"alice", 3>>, <<"bob", 1>> >>, GenesisHash, 0),
       MoveMessage("mint", "alice", 1, GenesisHash, 1),
       MoveMessage("vote", "bob", 1, GenesisHash, 1),
       MoveMessage("mint", "leader", 2, GenesisHash, 0) >>

Signatures == 1 .. Len(Messages)

\* Transaction::new_signed: the message with the signer's signature
Signed_tx(sig) ==
    [account_keys |-> Messages[sig].account_keys,
     recent_blockhash |-> Messages[sig].recent_blockhash,
     fee |-> Messages[sig].fee,
     instructions |-> Messages[sig].instructions,
     signatures |-> << sig >>]

\* Transaction::new_with_blockhash_and_fee: the message, not signed
Unsigned_tx(m) ==
    [account_keys |-> m.account_keys,
     recent_blockhash |-> m.recent_blockhash,
     fee |-> m.fee,
     instructions |-> m.instructions,
     signatures |-> << >>]

\* the transactions submitted on the fork graph
ForkTxs == { Signed_tx(sig) : sig \in 1 .. 5 }

RECURSIVE SeqsUpTo(_, _)
SeqsUpTo(S, n) ==
    IF n = 0 THEN { << >> }
    ELSE LET shorter == SeqsUpTo(S, n - 1)
         IN shorter \cup { Append(s, x) : s \in {t \in shorter : Len(t) = n - 1}, x \in S }

Signed(tx) == tx.signatures # << >>

\* batches submitted on the fork graph, and batches locked by a caller
\* that keeps the locks
ForkBatches == SeqsUpTo(ForkTxs, MaxBatch)
HeldBatches == { << tx >> : tx \in ForkTxs }

\* a batch that leaves all lamports of genesis with the bootstrap leader:
\* the mint moves its lamports there and the vote account pays a fee
DrainBatch == << Signed_tx(16), Signed_tx(15) >>
\* all lamports process_genesis_block hands out
DrainLamports == GenesisMintLamports + BootstrapLeaderLamports

----------------------------------------------------------------------------
(* EpochSchedule: slots_per_epoch, stakers_slot_offset and, with warmup,   *)
(* the first epoch and slot of full length.                                *)

RECURSIVE pow(_, _)
pow(base, e) == IF e = 0 THEN 1 ELSE base * pow(base, e - 1)

\* u64::next_power_of_two: the smallest power of two >= n
RECURSIVE power_of_two_from(_, _)
power_of_two_from(p, n) == IF p >= n THEN p ELSE power_of_two_from(2 * p, n)

next_power_of_two(n) == power_of_two_from(1, n)

\* u64::trailing_zeros of a power of two
RECURSIVE trailing_zeros(_)
trailing_zeros(p) == IF p % 2 = 1 THEN 0 ELSE 1 + trailing_zeros(p \div 2)

\* mutation: the warmup ends at first_normal_slot but epochs restart at 0
EpochSchedule_new_epoch_zero(slots_per_epoch, stakers_slot_offset, warmup) ==
    [slots_per_epoch |-> slots_per_epoch,
     stakers_slot_offset |-> stakers_slot_offset,
     first_normal_epoch |-> 0,
     first_normal_slot |-> IF warmup THEN next_power_of_two(slots_per_epoch) - 1 ELSE 0]

\* EpochSchedule::new
EpochSchedule_new(slots_per_epoch, stakers_slot_offset, warmup) ==
    [slots_per_epoch |-> slots_per_epoch,
     stakers_slot_offset |-> stakers_slot_offset,
     first_normal_epoch |->
        IF warmup THEN trailing_zeros(next_power_of_two(slots_per_epoch)) ELSE 0,
     first_normal_slot |->
        IF warmup THEN next_power_of_two(slots_per_epoch) - 1 ELSE 0]

\* mutation: every epoch has slots_per_epoch slots, the warmup epochs too
get_slots_in_epoch_normal(sch, epoch) == sch.slots_per_epoch

get_slots_in_epoch(sch, epoch) ==
    IF epoch < sch.first_normal_epoch THEN pow(2, epoch) ELSE sch.slots_per_epoch

\* the epoch of a warmup slot
warmup_epoch(slot) ==
    IF slot < 2 THEN slot
    ELSE trailing_zeros(next_power_of_two(slot + 2)) - 1

\* mutation: the offset is counted from the length of the epoch
get_epoch_and_slot_index_from_len(sch, slot) ==
    IF slot < sch.first_normal_slot
    THEN << warmup_epoch(slot), slot - pow(2, warmup_epoch(slot)) >>
    ELSE << sch.first_normal_epoch
              + ((slot - sch.first_normal_slot) \div sch.slots_per_epoch),
            (slot - sch.first_normal_slot) % sch.slots_per_epoch >>

\* get_epoch_and_slot_index(slot) -> (epoch, offset)
get_epoch_and_slot_index(sch, slot) ==
    IF slot < sch.first_normal_slot
    THEN << warmup_epoch(slot), slot - (pow(2, warmup_epoch(slot)) - 1) >>
    ELSE << sch.first_normal_epoch
              + ((slot - sch.first_normal_slot) \div sch.slots_per_epoch),
            (slot - sch.first_normal_slot) % sch.slots_per_epoch >>

\* mutation: a warmup slot saves the stakers of its own epoch
get_stakers_epoch_own(sch, slot) ==
    IF slot < sch.first_normal_slot
    THEN get_epoch_and_slot_index(sch, slot)[1]
    ELSE sch.first_normal_epoch
           + ((slot - sch.first_normal_slot + sch.stakers_slot_offset)
                \div sch.slots_per_epoch)

get_stakers_epoch(sch, slot) ==
    IF slot < sch.first_normal_slot
    THEN get_epoch_and_slot_index(sch, slot)[1] + 1
    ELSE sch.first_normal_epoch
           + ((slot - sch.first_normal_slot + sch.stakers_slot_offset)
                \div sch.slots_per_epoch)

----------------------------------------------------------------------------
(* BlockhashQueue: hash -> height at which it was registered (NoHeight     *)
(* when absent), the height of the last registration, the last hash.       *)

NoHeight == -1
AllHashes == {GenesisHash} \cup TickHashes

\* BlockhashQueue::default() followed by genesis_hash(genesis_block.hash())
genesis_hash(h) ==
    [ages |-> [x \in AllHashes |-> IF x = h THEN 0 ELSE NoHeight],
     hash_height |-> 0,
     last_hash |-> h]

\* register_hash(h): advance the height, age out entries older than the
\* capacity once the queue is full, insert h at the new height
register_hash(q, h) ==
    LET height == q.hash_height + 1
        present == {x \in AllHashes : q.ages[x] # NoHeight}
        kept == IF Cardinality(present) >= MAX_RECENT_BLOCKHASHES
                THEN {x \in present : height - q.ages[x] <= MAX_RECENT_BLOCKHASHES}
                ELSE present
    IN [ages |-> [x \in AllHashes |->
                    IF x = h THEN height
                    ELSE IF x \in kept THEN q.ages[x] ELSE NoHeight],
        hash_height |-> height,
        last_hash |-> h]

\* check_hash_age(h, max_age): present and not older than max_age
check_hash_age(q, h, max_age) ==
    /\ h \in AllHashes
    /\ q.ages[h] # NoHeight
    /\ q.hash_height - q.ages[h] <= max_age

----------------------------------------------------------------------------
(* StatusCache: a sequence of shards, the active one first.  A shard is    *)
(* the set of signatures seen in its tick window and the failures stored   *)
(* for them (a set of <<signature, error>> pairs, one per signature).      *)

EmptyShard == [signatures |-> {}, failures |-> {}]
EmptyStatusCache == << EmptyShard >>

shard_has_signature(shard, sig) == sig \in shard.signatures

shard_get_signature_status(shard, sig) ==
    IF \E f \in shard.failures : f[1] = sig
    THEN (CHOOSE f \in shard.failures : f[1] = sig)[2]
    ELSE IF sig \in shard.signatures THEN Ok
    ELSE None

\* has_signature: the active shard or any rotated one
has_signature_cache(cache, sig) ==
    \E i \in 1 .. Len(cache) : shard_has_signature(cache[i], sig)

\* get_signature_status: the first shard that knows the signature decides
get_signature_status_cache(cache, sig) ==
    IF \E i \in 1 .. Len(cache) : shard_get_signature_status(cache[i], sig) # None
    THEN LET i == CHOOSE j \in 1 .. Len(cache) :
                    /\ shard_get_signature_status(cache[j], sig) # None
                    /\ \A k \in 1 .. (j - 1) : shard_get_signature_status(cache[k], sig) = None
         IN shard_get_signature_status(cache[i], sig)
    ELSE None

\* add(sig): into the active shard
status_cache_add(cache, sig) ==
    [cache EXCEPT ![1].signatures = @ \cup {sig}]

\* save_failure_status(sig, err): one stored failure per signature
save_failure_status(cache, sig, err) ==
    [cache EXCEPT ![1].failures = {f \in @ : f[1] # sig} \cup {<<sig, err>>}]

\* new_cache(h): open a new active shard, rotate the oldest out when full
new_cache(cache) ==
    LET pushed == << EmptyShard >> \o cache
    IN IF Len(pushed) > MAX_CACHE_ENTRIES + 1
       THEN SubSeq(pushed, 1, MAX_CACHE_ENTRIES + 1)
       ELSE pushed

\* clear(): every shard is wiped
status_cache_clear(cache) == [i \in 1 .. Len(cache) |-> EmptyShard]

\* squash(parent_caches): fold the ancestors' shards in behind this cache's
\* own, nearest ancestor first
RECURSIVE FlattenCaches(_)
FlattenCaches(cs) == IF cs = << >> THEN << >> ELSE Head(cs) \o FlattenCaches(Tail(cs))

status_cache_squash(cache, parent_caches) == cache \o FlattenCaches(parent_caches)

\* StatusCache::has_signature_all(caches, sig): self first, then ancestors
has_signature_all(caches, sig) ==
    \E i \in 1 .. Len(caches) : has_signature_cache(caches[i], sig)

\* StatusCache::get_signature_status_all(caches, sig): short-circuits on a hit
get_signature_status_all(caches, sig) ==
    IF \E i \in 1 .. Len(caches) : get_signature_status_cache(caches[i], sig) # None
    THEN LET i == CHOOSE j \in 1 .. Len(caches) :
                    /\ get_signature_status_cache(caches[j], sig) # None
                    /\ \A k \in 1 .. (j - 1) : get_signature_status_cache(caches[k], sig) = None
         IN get_signature_status_cache(caches[i], sig)
    ELSE None

----------------------------------------------------------------------------
(* Accounts: the store shared by all banks.  acct[fork][key] is the        *)
(* lamports written for key on fork (NoAccount when the fork never wrote   *)
(* it; 0 is a written, emptied account that shadows the ancestors'         *)
(* value), parents[fork] the fork's ancestors nearest first,               *)
(* tx_count[fork] the fork's transaction counter and locks the set of      *)
(* <<fork, key>> account locks held.                                       *)

NoAccount == -1

\* the stored lamports a read of key on fork finds walking the parent chain
RawLoad(A, fork, key) ==
    LET chain == << fork >> \o A.parents[fork]
    IN IF \E i \in 1 .. Len(chain) : A.acct[chain[i]][key] # NoAccount
       THEN LET i == CHOOSE j \in 1 .. Len(chain) :
                       /\ A.acct[chain[j]][key] # NoAccount
                       /\ \A k \in 1 .. (j - 1) : A.acct[chain[k]][key] = NoAccount
            IN A.acct[chain[i]][key]
       ELSE NoAccount

\* load_slow(fork, key): an account with no lamports does not exist
load_slow(A, fork, key) ==
    LET v == RawLoad(A, fork, key) IN IF v = 0 THEN NoAccount ELSE v

\* load_slow_no_parent(fork, key): the fork's own write only
load_slow_no_parent(A, fork, key) ==
    IF A.acct[fork][key] = 0 THEN NoAccount ELSE A.acct[fork][key]

\* store_slow(fork, key, account): always on the given fork; an emptied
\* account is deleted in place on a fork that has no parents
store_slow(A, fork, key, lamports) ==
    [A EXCEPT !.acct[fork][key] =
        IF lamports = 0 /\ A.parents[fork] = << >> THEN NoAccount ELSE lamports]

\* has_accounts(fork): the fork has written some account
has_accounts(A, fork) == \E k \in Keys : A.acct[fork][k] # NoAccount

\* the fork holds no account but those of the native programs
Drained(A, fork) == \A k \in Keys \ NativePrograms : A.acct[fork][k] = NoAccount

\* Accounts::hash_internal_state(fork): the fork's modified account set
accounts_delta(A, fork) == A.acct[fork]

\* Accounts::new_from_parent(fork, parent): a fresh fork on top of parent,
\* starting from the parent's transaction count
accounts_new_from_parent(A, fork, parent) ==
    [A EXCEPT !.parents[fork] = << parent >> \o A.parents[parent],
              !.tx_count[fork] = A.tx_count[parent]]

\* Accounts::squash(fork): every account visible through the parents
\* becomes the fork's own, emptied accounts are dropped, the parent link
\* is cut; the parents' own forks are left as they are
accounts_squash(A, fork) ==
    [A EXCEPT !.acct[fork] = [k \in Keys |-> load_slow(A, fork, k)],
              !.parents[fork] = << >>]

increment_transaction_count(A, fork, n) ==
    [A EXCEPT !.tx_count[fork] = @ + n]

\* lock_account(fork, keys): all of the keys or none
CanLock(locks, fork, tx) ==
    \A i \in 1 .. Len(tx.account_keys) : <<fork, tx.account_keys[i]>> \notin locks

TxLocks(fork, tx) == { <<fork, k>> : k \in Range(tx.account_keys) }

\* Accounts::lock_accounts(fork, txs): in index order
RECURSIVE LockFold(_, _, _, _)
LockFold(locks, fork, txs, acc) ==
    IF txs = << >> THEN [locks |-> locks, results |-> acc]
    ELSE IF CanLock(locks, fork, Head(txs))
         THEN LockFold(locks \cup TxLocks(fork, Head(txs)), fork, Tail(txs), Append(acc, Ok))
         ELSE LockFold(locks, fork, Tail(txs), Append(acc, Err("AccountInUse")))

accounts_lock_accounts(A, fork, txs) ==
    LET r == LockFold(A.locks, fork, txs, << >>)
    IN [A |-> [A EXCEPT !.locks = r.locks], results |-> r.results]

\* Accounts::unlock_accounts(fork, txs, results): a transaction that got
\* AccountInUse holds nothing; every other one releases its keys
accounts_unlock_accounts(A, fork, txs, results) ==
    [A EXCEPT !.locks = @ \ UNION { TxLocks(fork, txs[i]) :
                                     i \in {j \in 1 .. Len(txs) : results[j] # Err("AccountInUse")} }]

HasDuplicates(keys) ==
    \E i, j \in 1 .. Len(keys) : i # j /\ keys[i] = keys[j]

\* mutation: a fee is taken from a payer that has not signed
load_tx_accounts_fee_unsigned(A, fork, tx) ==
    LET called == [i \in 1 .. Len(tx.account_keys) |->
                     LET v == RawLoad(A, fork, tx.account_keys[i])
                     IN IF v = NoAccount THEN 0 ELSE v]
    IN IF HasDuplicates(tx.account_keys)
       THEN [res |-> Err("AccountLoadedTwice"), accts |-> << >>]
       ELSE IF called = << >> \/ called[1] = 0
       THEN [res |-> Err("AccountNotFound"), accts |-> << >>]
       ELSE IF called[1] < tx.fee
       THEN [res |-> Err("InsufficientFundsForFee"), accts |-> << >>]
       ELSE [res |-> Ok, accts |-> [called EXCEPT ![1] = @ - tx.fee]]

\* load_tx_accounts: the lamports of every account key, the fee already
\* taken from account_keys[0]
load_tx_accounts(A, fork, tx) ==
    LET called == [i \in 1 .. Len(tx.account_keys) |->
                     LET v == RawLoad(A, fork, tx.account_keys[i])
                     IN IF v = NoAccount THEN 0 ELSE v]
    IN IF tx.signatures = << >> /\ tx.fee # 0
       THEN [res |-> Err("MissingSignatureForFee"), accts |-> << >>]
       ELSE IF HasDuplicates(tx.account_keys)
       THEN [res |-> Err("AccountLoadedTwice"), accts |-> << >>]
       ELSE IF called = << >> \/ called[1] = 0
       THEN [res |-> Err("AccountNotFound"), accts |-> << >>]
       ELSE IF called[1] < tx.fee
       THEN [res |-> Err("InsufficientFundsForFee"), accts |-> << >>]
       ELSE [res |-> Ok, accts |-> [called EXCEPT ![1] = @ - tx.fee]]

\* Accounts::load_accounts(fork, txs, results): an earlier error passes through
accounts_load_accounts(A, fork, txs, results) ==
    [i \in 1 .. Len(txs) |->
        IF IsErr(results[i]) THEN [res |-> results[i], accts |-> << >>]
        ELSE load_tx_accounts(A, fork, txs[i])]

\* Accounts::store_accounts(fork, txs, executed, loaded): the account
\* snapshots of the transactions that executed without error
RECURSIVE StoreKeys(_, _, _, _)
StoreKeys(A, fork, keys, accts) ==
    IF keys = << >> THEN A
    ELSE StoreKeys(store_slow(A, fork, Head(keys), Head(accts)), fork, Tail(keys), Tail(accts))

RECURSIVE StoreFold(_, _, _, _, _, _)
StoreFold(A, fork, txs, executed, loaded, i) ==
    IF i > Len(txs) THEN A
    ELSE IF IsErr(executed[i]) \/ IsErr(loaded[i].res)
         THEN StoreFold(A, fork, txs, executed, loaded, i + 1)
         ELSE StoreFold(StoreKeys(A, fork, txs[i].account_keys, loaded[i].accts),
                        fork, txs, executed, loaded, i + 1)

accounts_store_accounts(A, fork, txs, executed, loaded) ==
    StoreFold(A, fork, txs, executed, loaded, 1)

----------------------------------------------------------------------------
(* Runtime and the system program's Move *)

\* system Move{lamports} on <<from, to>>: the source must have signed and
\* must hold the lamports
process_move(tx, ix, accts) ==
    LET from == ix.accounts[1]
        to == ix.accounts[2]
    IN IF tx.signatures = << >>
       THEN [ok |-> FALSE, cause |-> "MissingRequiredSignature", accts |-> accts]
       ELSE IF ix.lamports > accts[from]
       THEN [ok |-> FALSE, cause |-> "ResultWithNegativeLamports", accts |-> accts]
       ELSE [ok |-> TRUE, cause |-> "",
             accts |-> [accts EXCEPT ![from] = @ - ix.lamports, ![to] = @ + ix.lamports]]

\* Runtime::execute_transaction: instructions in order, the first failure
\* aborts with InstructionError(index, cause); index counts from 0
RECURSIVE ExecFold(_, _, _)
ExecFold(tx, accts, i) ==
    IF i > Len(tx.instructions) THEN [res |-> Ok, accts |-> accts]
    ELSE LET r == process_move(tx, tx.instructions[i], accts)
         IN IF r.ok THEN ExecFold(tx, r.accts, i + 1)
            ELSE [res |-> InstructionError(i - 1, r.cause), accts |-> r.accts]

execute_transaction(tx, accts) == ExecFold(tx, accts, 1)

----------------------------------------------------------------------------
(* Bank *)

\* accounts_id: the genesis bank has 0, new_from_parent draws the next id
\* of a global counter; the model uses it as the bank's id
\* mutation: every bank keeps the accounts_id of Bank::default()
accounts_id_default(b) == 0

accounts_id(b) == b

\* Bank::parents(): the ancestors, nearest first
RECURSIVE ParentsOf(_, _)
ParentsOf(bk, b) ==
    IF bk[b].parent = NoBank THEN << >>
    ELSE << bk[b].parent >> \o ParentsOf(bk, bk[b].parent)

\* mutation: the bank reports no ancestors
parents_none(b) == << >>

parents(b) == ParentsOf(bank, b)

\* mutation: a lookup walks the status cache of every bank
CachesOf_every_bank(bk, sc, b) ==
    << sc[b] >> \o [i \in 1 .. MaxBanks |-> sc[i - 1]]

\* the caches a lookup walks: the bank's own, then its parents'
CachesOf(bk, sc, b) ==
    << sc[b] >> \o [i \in 1 .. Len(ParentsOf(bk, b)) |-> sc[ParentsOf(bk, b)[i]]]

\* Accounts::get_vote_accounts(fork): the vote accounts the fork sees
VoteKeys == {"vote"}

vote_accounts(A, fork) == [k \in VoteKeys |-> load_slow(A, fork, k)]

\* epoch_vote_accounts(epoch): the snapshot saved for the epoch, if any
has_epoch_vote_accounts(saved, epoch) == \E e \in saved : e[1] = epoch

\* mutation: the child saves its vote accounts over what the parent saved
child_epoch_vote_accounts_saved_anew(saved, epoch, current) ==
    { e \in saved : e[1] # epoch } \cup { << epoch, current >> }

\* new_from_parent: the parent's map, with the current vote accounts saved
\* for the child's stakers epoch when the parent had none for it
child_epoch_vote_accounts(saved, epoch, current) ==
    IF has_epoch_vote_accounts(saved, epoch) THEN saved
    ELSE saved \cup { << epoch, current >> }

is_frozen(b) == bank[b].hash # DefaultHash

get_account(b, key) == load_slow(accounts, accounts_id(b), key)

get_balance(b, key) ==
    IF get_account(b, key) = NoAccount THEN 0 ELSE get_account(b, key)

transaction_count(b) == accounts.tx_count[accounts_id(b)]

get_signature_status(b, sig) ==
    get_signature_status_all(CachesOf(bank, status_cache, b), sig)

has_signature(b, sig) ==
    has_signature_all(CachesOf(bank, status_cache, b), sig)

\* the loop of is_in_subtree_of: p is next_parent; the walk ends at the first
\* bank whose slot is the one asked for or lies below it
RECURSIVE in_subtree_walk(_, _)
in_subtree_walk(p, parent) ==
    IF p = NoBank THEN FALSE
    ELSE IF bank[p].slot = parent THEN TRUE
    ELSE IF bank[p].slot < parent THEN FALSE
    ELSE in_subtree_walk(bank[p].parent, parent)

\* is_in_subtree_of(parent): parent is a slot
is_in_subtree_of(b, parent) ==
    IF bank[b].slot = parent THEN TRUE
    ELSE in_subtree_walk(bank[b].parent, parent)

\* is_votable(): a delta was recorded and the tick height is the last of the slot
is_votable(b) ==
    /\ bank[b].is_delta
    /\ bank[b].tick_height = (bank[b].slot + 1) * bank[b].ticks_per_slot - 1

last_blockhash(b) == blockhash_queue[b].last_hash

\* extend_and_hash(parent_hash, delta): hashes are modelled by what they hash
extend_and_hash(h, delta) == Append(h, delta)

\* mutation: the parent hash is extended also when the fork wrote nothing
hash_internal_state_always_extended(b, A) ==
    extend_and_hash(bank[b].parent_hash, accounts_delta(A, accounts_id(b)))

hash_internal_state(b, A) ==
    IF ~has_accounts(A, accounts_id(b)) THEN bank[b].parent_hash
    ELSE extend_and_hash(bank[b].parent_hash, accounts_delta(A, accounts_id(b)))

\* mutation: freeze stores the hash of the internal state whenever called
FrozenHash_every_call(b, A) == hash_internal_state(b, A)

\* the hash field after freeze(): set only while it is still unset
\* mutation: freeze stores the hash of the parent
FrozenHash_of_parent(b, A) ==
    IF bank[b].hash = DefaultHash THEN bank[b].parent_hash ELSE bank[b].hash

FrozenHash(b, A) ==
    IF bank[b].hash = DefaultHash THEN hash_internal_state(b, A) ELSE bank[b].hash

check_age(q, txs, lock_results, max_age) ==
    [i \in 1 .. Len(txs) |->
        IF IsOk(lock_results[i]) /\ ~check_hash_age(q, txs[i].recent_blockhash, max_age)
        THEN Err("BlockhashNotFound")
        ELSE lock_results[i]]

check_signatures(caches, txs, lock_results) ==
    [i \in 1 .. Len(txs) |->
        IF txs[i].signatures = << >> THEN lock_results[i]
        ELSE IF IsOk(lock_results[i]) /\ has_signature_all(caches, txs[i].signatures[1])
        THEN Err("DuplicateSignature")
        ELSE lock_results[i]]

\* mutation: a transaction that ended with an instruction error is counted
executed_transactions_count_ran(b, l, txs, loaded, ran) ==
    [A |-> increment_transaction_count(l.A, accounts_id(b),
                Cardinality({i \in 1 .. Len(txs) :
                               ran[i].res.kind \in {"Ok", "InstructionError"}})),
     loaded |-> [i \in 1 .. Len(txs) |-> [res |-> loaded[i].res, accts |-> ran[i].accts]],
     executed |-> [i \in 1 .. Len(txs) |-> ran[i].res],
     lock_results |-> l.results]

\* the tail of load_and_execute_transactions: the results of the execution,
\* the transaction counter raised by the number of transactions that ran Ok
executed_transactions(b, l, txs, loaded, ran) ==
    [A |-> increment_transaction_count(l.A, accounts_id(b),
                Cardinality({i \in 1 .. Len(txs) : IsOk(ran[i].res)})),
     loaded |-> [i \in 1 .. Len(txs) |-> [res |-> loaded[i].res, accts |-> ran[i].accts]],
     executed |-> [i \in 1 .. Len(txs) |-> ran[i].res],
     lock_results |-> l.results]

\* the execution step of load_and_execute_transactions: a transaction whose
\* load failed keeps that error, every other one is run
execute_loaded(b, l, txs, loaded) ==
    executed_transactions(b, l, txs, loaded,
        [i \in 1 .. Len(txs) |->
            IF IsErr(loaded[i].res) THEN [res |-> loaded[i].res, accts |-> << >>]
            ELSE execute_transaction(txs[i], loaded[i].accts)])

\* mutation: the age check starts from fresh results, not from the lock results
load_and_execute_transactions_unlocked(b, l, cache, txs, max_age) ==
    execute_loaded(b, l, txs,
        accounts_load_accounts(l.A, accounts_id(b), txs,
            check_signatures(CachesOf(bank, [status_cache EXCEPT ![b] = cache], b), txs,
                check_age(blockhash_queue[b], txs, [i \in 1 .. Len(txs) |-> Ok], max_age))))

\* mutation: the signatures are checked before the age of the blockhash
load_and_execute_transactions_signatures_first(b, l, cache, txs, max_age) ==
    execute_loaded(b, l, txs,
        accounts_load_accounts(l.A, accounts_id(b), txs,
            check_age(blockhash_queue[b], txs,
                check_signatures(CachesOf(bank, [status_cache EXCEPT ![b] = cache], b), txs,
                    l.results),
                max_age)))

\* load_and_execute_transactions(txs, lock_results, max_age): the gates, the
\* load, the execution and the transaction counter; l holds the accounts
\* store and the lock results, cache the bank's own status cache, loaded
\* the accounts as execution left them
load_and_execute_transactions(b, l, cache, txs, max_age) ==
    execute_loaded(b, l, txs,
        accounts_load_accounts(l.A, accounts_id(b), txs,
            check_signatures(CachesOf(bank, [status_cache EXCEPT ![b] = cache], b), txs,
                check_age(blockhash_queue[b], txs, l.results, max_age))))

\* mutation: every error is recorded, the early failures included
update_transaction_status_every_error(cache, tx, res) ==
    IF tx.signatures = << >> THEN cache
    ELSE IF IsOk(res) THEN status_cache_add(cache, tx.signatures[1])
    ELSE save_failure_status(status_cache_add(cache, tx.signatures[1]), tx.signatures[1], res)

\* mutation: an instruction error is skipped like the early failures
update_transaction_status_skip_instruction_error(cache, tx, res) ==
    IF tx.signatures = << >> THEN cache
    ELSE IF IsOk(res) THEN status_cache_add(cache, tx.signatures[1])
    ELSE IF res.kind \in {"BlockhashNotFound", "DuplicateSignature", "AccountNotFound",
                          "InstructionError"}
    THEN cache
    ELSE save_failure_status(status_cache_add(cache, tx.signatures[1]), tx.signatures[1], res)

\* mutation: AccountInUse is skipped like the early failures
update_transaction_status_skip_in_use(cache, tx, res) ==
    IF tx.signatures = << >> THEN cache
    ELSE IF IsOk(res) THEN status_cache_add(cache, tx.signatures[1])
    ELSE IF res.kind \in {"BlockhashNotFound", "DuplicateSignature", "AccountNotFound",
                          "AccountInUse"}
    THEN cache
    ELSE save_failure_status(status_cache_add(cache, tx.signatures[1]), tx.signatures[1], res)

\* the status one transaction leaves in the cache
update_transaction_status(cache, tx, res) ==
    IF tx.signatures = << >> THEN cache
    ELSE IF IsOk(res) THEN status_cache_add(cache, tx.signatures[1])
    ELSE IF res.kind \in {"BlockhashNotFound", "DuplicateSignature", "AccountNotFound"}
    THEN cache
    ELSE save_failure_status(status_cache_add(cache, tx.signatures[1]), tx.signatures[1], res)

RECURSIVE StatusFold(_, _, _, _)
StatusFold(cache, txs, res, i) ==
    IF i > Len(txs) THEN cache
    ELSE StatusFold(update_transaction_status(cache, txs[i], res[i]), txs, res, i + 1)

update_transaction_statuses(cache, txs, res) == StatusFold(cache, txs, res, 1)

\* the outcome of withdraw once the account has been read
withdraw_from(A, fork, pubkey, lamports, account) ==
    IF account = NoAccount THEN [A |-> A, res |-> Err("AccountNotFound")]
    ELSE IF lamports > account THEN [A |-> A, res |-> Err("InsufficientFundsForFee")]
    ELSE [A |-> store_slow(A, fork, pubkey, account - lamports), res |-> Ok]

withdraw(A, fork, pubkey, lamports) ==
    withdraw_from(A, fork, pubkey, lamports, load_slow(A, fork, pubkey))

\* the store of deposit once the account has been read (unwrap_or_default)
deposit_to(A, fork, pubkey, lamports, account) ==
    store_slow(A, fork, pubkey, (IF account = NoAccount THEN 0 ELSE account) + lamports)

deposit(A, fork, pubkey, lamports) ==
    deposit_to(A, fork, pubkey, lamports, load_slow(A, fork, pubkey))

\* filter_program_errors_and_collect_fee for a transaction that ended with
\* an InstructionError: w is what the withdraw of its fee returned
fee_withdrawn(f, tx, w) ==
    IF IsErr(w.res)
    THEN [A |-> w.A, fees |-> f.fees, results |-> Append(f.results, w.res)]
    ELSE [A |-> w.A, fees |-> f.fees + tx.fee, results |-> Append(f.results, Ok)]

\* mutation: only a transaction that ran Ok pays its fee
collect_fee_of_successes(f, fork, tx, res) ==
    IF res.kind = "InstructionError" THEN [f EXCEPT !.results = Append(@, Ok)]
    ELSE IF IsOk(res)
    THEN [f EXCEPT !.fees = @ + tx.fee, !.results = Append(@, Ok)]
    ELSE [f EXCEPT !.results = Append(@, res)]

\* the per-transaction part of filter_program_errors_and_collect_fee
collect_fee(f, fork, tx, res) ==
    IF res.kind = "InstructionError"
    THEN fee_withdrawn(f, tx, withdraw(f.A, fork, tx.account_keys[1], tx.fee))
    ELSE IF IsOk(res)
    THEN [f EXCEPT !.fees = @ + tx.fee, !.results = Append(@, Ok)]
    ELSE [f EXCEPT !.results = Append(@, res)]

RECURSIVE FeeFold(_, _, _, _, _)
FeeFold(f, fork, txs, executed, i) ==
    IF i > Len(txs) THEN f
    ELSE FeeFold(collect_fee(f, fork, txs[i], executed[i]), fork, txs, executed, i + 1)

\* mutation: the collected fees are deposited nowhere
fees_deposited_nowhere(fork, collector_id, f) ==
    [A |-> f.A, results |-> f.results]

\* the deposit of the collected fees that ends the filter
fees_deposited(fork, collector_id, f) ==
    [A |-> deposit(f.A, fork, collector_id, f.fees), results |-> f.results]

filter_program_errors_and_collect_fee(A, fork, collector_id, txs, executed) ==
    fees_deposited(fork, collector_id,
        FeeFold([A |-> A, fees |-> 0, results |-> << >>], fork, txs, executed, 1))

\* what commit_transactions leaves: f is what the fee filter returned
committed(cache, txs, le, f) ==
    [A |-> f.A,
     cache |-> update_transaction_statuses(cache, txs, le.executed),
     results |-> f.results,
     executed |-> le.executed,
     lock_results |-> le.lock_results]

\* mutation: the accounts of every loaded transaction are stored, also of
\* those whose execution failed
commit_transactions_store_failed(b, cache, txs, le) ==
    committed(cache, txs, le,
        filter_program_errors_and_collect_fee(
            accounts_store_accounts(le.A, accounts_id(b), txs,
                                    [i \in 1 .. Len(txs) |-> Ok], le.loaded),
            accounts_id(b), bank[b].collector_id, txs, le.executed))

\* commit_transactions(txs, loaded_accounts, executed): store, record the
\* statuses, collect the fees; le is what load_and_execute_transactions returned
commit_transactions(b, cache, txs, le) ==
    committed(cache, txs, le,
        filter_program_errors_and_collect_fee(
            accounts_store_accounts(le.A, accounts_id(b), txs, le.executed, le.loaded),
            accounts_id(b), bank[b].collector_id, txs, le.executed))

\* load_execute_and_commit_transactions(txs, lock_results, max_age)
load_execute_and_commit_transactions(b, l, cache, txs, max_age) ==
    commit_transactions(b, cache, txs,
                        load_and_execute_transactions(b, l, cache, txs, max_age))

\* mutation: process_transactions returns without unlocking
not_unlocked(b, txs, r) == r

\* mutation: the unlock releases the keys of every transaction of the batch
unlocked_every_key(b, txs, r) ==
    [r EXCEPT !.A = accounts_unlock_accounts(r.A, accounts_id(b), txs,
                                             [i \in 1 .. Len(txs) |-> Ok])]

\* the unlock that ends process_transactions: r is what the commit returned
unlocked(b, txs, r) ==
    [r EXCEPT !.A = accounts_unlock_accounts(r.A, accounts_id(b), txs, r.results)]

\* process_transactions(txs): lock, load, execute, commit, unlock
process_transactions(b, A, cache, txs) ==
    unlocked(b, txs,
        load_execute_and_commit_transactions(b,
            accounts_lock_accounts(A, accounts_id(b), txs), cache, txs,
            MAX_RECENT_BLOCKHASHES))

\* mutation: process_transaction returns what process_transactions returned
process_transaction_unrecorded(tx, res, status) == res

\* what process_transaction(tx) returns: res is the entry process_transactions
\* returned for tx (the ? operator), status what get_signature_status returns
\* afterwards for its first signature
process_transaction(tx, res, status) ==
    IF IsErr(res) THEN res
    ELSE IF tx.signatures = << >> THEN Ok
    ELSE status

----------------------------------------------------------------------------
(* Initial state: Bank::new(genesis_block) as bank 0 *)

DeadBank ==
    [live |-> FALSE, slot |-> 0, parent |-> NoBank, parent_hash |-> DefaultHash,
     hash |-> DefaultHash, tick_height |-> 0, ticks_per_slot |-> 0,
     collector_id |-> "leader", is_delta |-> FALSE,
     epoch_schedule |-> [slots_per_epoch |-> 0, stakers_slot_offset |-> 0,
                         first_normal_epoch |-> 0, first_normal_slot |-> 0],
     epoch_vote_accounts |-> {}]

\* process_genesis_block: the bootstrap leader collects the fees, the mint,
\* the leader (1 lamport) and the leader's vote account are funded
\* new_with_paths: the vote accounts of genesis are saved for every epoch up
\* to the stakers epoch of slot 0; sch is the schedule process_genesis_block made
GenesisBankWith(sch, genesis_vote_accounts) ==
    [DeadBank EXCEPT !.live = TRUE,
                     !.ticks_per_slot = TicksPerSlot,
                     !.epoch_schedule = sch,
                     !.epoch_vote_accounts =
                        { << i, genesis_vote_accounts >> : i \in 0 .. get_stakers_epoch(sch, 0) }]

GenesisBank ==
    GenesisBankWith(EpochSchedule_new(SlotsPerEpoch, StakersSlotOffset, EpochWarmup),
                    [k \in VoteKeys |-> BootstrapLeaderLamports - 1])

\* lamports of the account native_loader::create_program_account makes, and
\* of the bogus executable account of add_instruction_processor
ProgramAccountLamports == 1

\* mutation: process_genesis_block registers no native program
GenesisAccounts_without_native_programs ==
    [acct |-> [b \in BankIds |-> [k \in Keys |->
                 IF b # 0 THEN NoAccount
                 ELSE IF k = "mint" THEN GenesisMintLamports
                 ELSE IF k = "leader" THEN 1
                 ELSE IF k = "vote" THEN BootstrapLeaderLamports - 1
                 ELSE NoAccount]],
     parents |-> [b \in BankIds |-> << >>],
     tx_count |-> [b \in BankIds |-> 0],
     locks |-> {}]

\* the store after process_genesis_block: the mint, the bootstrap leader and
\* its vote account are funded, and each native program has its account
GenesisAccounts ==
    [acct |-> [b \in BankIds |-> [k \in Keys |->
                 IF b # 0 THEN NoAccount
                 ELSE IF k = "mint" THEN GenesisMintLamports
                 ELSE IF k = "leader" THEN 1
                 ELSE IF k = "vote" THEN BootstrapLeaderLamports - 1
                 ELSE IF k \in NativePrograms THEN ProgramAccountLamports
                 ELSE NoAccount]],
     parents |-> [b \in BankIds |-> << >>],
     tx_count |-> [b \in BankIds |-> 0],
     locks |-> {}]

NoOp == [op |-> "init", bank |-> 0, txs |-> << >>, results |-> << >>,
         executed |-> << >>, lock_results |-> << >>]

Init ==
    /\ bank = [b \in BankIds |-> IF b = 0 THEN GenesisBank ELSE DeadBank]
    /\ blockhash_queue = [b \in BankIds |-> genesis_hash(GenesisHash)]
    /\ status_cache = [b \in BankIds |-> EmptyStatusCache]
    /\ accounts = GenesisAccounts
    /\ held = {}
    /\ thr = << >>
    /\ last = NoOp
    /\ ledger = [commits |-> [b \in BankIds |-> [s \in Signatures |-> 0]],
                 ancestry |-> [b \in BankIds |-> {}],
                 rejected |-> {},
                 blocked |-> {},
                 released |-> {},
                 cleared |-> {}]
    /\ ops = 0

Live == {b \in BankIds : bank[b].live}

\* history: the signed transactions of a batch that passed every gate
\* (executed, with or without an instruction error) are in the ledger
Commits(c, b, txs, executed) ==
    [c EXCEPT ![b] = [s \in Signatures |->
        @[s] + Cardinality({i \in 1 .. Len(txs) :
                              /\ Signed(txs[i]) /\ txs[i].signatures[1] = s
                              /\ executed[i].kind \in {"Ok", "InstructionError"}})]]

\* history: the signed transactions a batch returned an error for, as
\* <<bank, signature, error kind>>
Rejections(b, txs, results) ==
    { <<b, txs[i].signatures[1], results[i].kind>> :
        i \in {j \in 1 .. Len(txs) : Signed(txs[j]) /\ IsErr(results[j])} }

\* history: the signed transactions a batch returned AccountInUse for
\* because a key of theirs was locked before the batch began
Blocked(b, txs, results, locks) ==
    { <<b, txs[i].signatures[1]>> :
        i \in {j \in 1 .. Len(txs) :
                 /\ Signed(txs[j])
                 /\ results[j] = Err("AccountInUse")
                 /\ TxLocks(accounts_id(b), txs[j]) \cap locks # {}} }

\* the account locks a batch holds: those of its transactions that did not
\* get AccountInUse
BatchLocks(fork, txs, results) ==
    UNION { TxLocks(fork, txs[i]) :
              i \in {j \in 1 .. Len(txs) : results[j] # Err("AccountInUse")} }

----------------------------------------------------------------------------
(* Operations *)

\* Bank::process_transactions(txs)
ProcessTransactions(b, txs) ==
    /\ b \in Live
    /\ \E r \in {process_transactions(b, accounts, status_cache[b], txs)} :
          /\ accounts' = r.A
          /\ status_cache' = [status_cache EXCEPT ![b] = r.cache]
          /\ bank' = [bank EXCEPT ![b].is_delta = TRUE]
          /\ last' = [op |-> "process_transactions", bank |-> b, txs |-> txs,
                      results |-> r.results, executed |-> r.executed,
                      lock_results |-> r.lock_results]
          /\ ledger' = [ledger EXCEPT !.commits = Commits(@, b, txs, r.executed),
                                      !.rejected = @ \cup Rejections(b, txs, r.results),
                                      !.blocked = @ \cup Blocked(b, txs, r.results,
                                                                 accounts.locks)]
    /\ ops' = ops + 1
    /\ UNCHANGED <<blockhash_queue, held, thr>>

\* Bank::process_transaction(tx): last.results holds the value returned
ProcessTransaction(b, tx) ==
    /\ b \in Live
    /\ \E r \in {process_transactions(b, accounts, status_cache[b], << tx >>)} :
          /\ accounts' = r.A
          /\ status_cache' = [status_cache EXCEPT ![b] = r.cache]
          /\ bank' = [bank EXCEPT ![b].is_delta = TRUE]
          /\ last' = [op |-> "process_transaction", bank |-> b, txs |-> << tx >>,
                      results |->
                        << process_transaction(tx, r.results[1],
                             IF tx.signatures = << >> THEN None
                             ELSE get_signature_status_all(
                                    CachesOf(bank, [status_cache EXCEPT ![b] = r.cache], b),
                                    tx.signatures[1])) >>,
                      executed |-> r.executed,
                      lock_results |-> r.lock_results]
          /\ ledger' = [ledger EXCEPT !.commits = Commits(@, b, << tx >>, r.executed),
                                      !.rejected = @ \cup Rejections(b, << tx >>, r.results),
                                      !.blocked = @ \cup Blocked(b, << tx >>, r.results,
                                                                 accounts.locks)]
    /\ ops' = ops + 1
    /\ UNCHANGED <<blockhash_queue, held, thr>>

\* Bank::lock_accounts(txs) by a caller that keeps the locks (the path of
\* load_execute_and_commit_transactions with the caller holding the locks)
LockAccounts(b, txs) ==
    /\ b \in Live
    /\ Cardinality(held) < MaxHeld
    /\ LET l == accounts_lock_accounts(accounts, accounts_id(b), txs)
       IN /\ accounts' = l.A
          /\ held' = held \cup {[bank |-> b, txs |-> txs, results |-> l.results,
                                 stage |-> "locked"]}
          /\ last' = [op |-> "lock_accounts", bank |-> b, txs |-> txs,
                      results |-> l.results, executed |-> << >>, lock_results |-> l.results]
    /\ ops' = ops + 1
    /\ UNCHANGED <<bank, blockhash_queue, status_cache, thr, ledger>>

\* Bank::load_execute_and_commit_transactions(txs, lock_results, max_age)
LoadExecuteAndCommit(h) ==
    /\ h \in held
    /\ h.stage = "locked"
    /\ \E b \in {h.bank} :
       \E r \in {load_execute_and_commit_transactions(b,
                     [A |-> accounts, results |-> h.results], status_cache[b], h.txs,
                     MAX_RECENT_BLOCKHASHES)} :
          /\ accounts' = r.A
          /\ status_cache' = [status_cache EXCEPT ![b] = r.cache]
          /\ bank' = [bank EXCEPT ![b].is_delta = TRUE]
          /\ held' = (held \ {h}) \cup {[h EXCEPT !.results = r.results, !.stage = "committed"]}
          /\ last' = [op |-> "load_execute_and_commit_transactions", bank |-> b,
                      txs |-> h.txs, results |-> r.results, executed |-> r.executed,
                      lock_results |-> h.results]
          /\ ledger' = [ledger EXCEPT !.commits = Commits(@, b, h.txs, r.executed),
                                      !.rejected = @ \cup Rejections(b, h.txs, r.results)]
    /\ ops' = ops + 1
    /\ UNCHANGED <<blockhash_queue, thr>>

\* Bank::unlock_accounts(txs, results) by the caller that held the locks
UnlockAccounts(h) ==
    /\ h \in held
    /\ accounts' = accounts_unlock_accounts(accounts, accounts_id(h.bank), h.txs, h.results)
    /\ held' = held \ {h}
    /\ last' = [op |-> "unlock_accounts", bank |-> h.bank, txs |-> h.txs,
                results |-> h.results, executed |-> << >>, lock_results |-> << >>]
    /\ ledger' = [ledger EXCEPT !.released =
                     @ \cup BatchLocks(accounts_id(h.bank), h.txs, h.results)]
    /\ ops' = ops + 1
    /\ UNCHANGED <<bank, blockhash_queue, status_cache, thr>>

\* mutation: register_tick returns at once on a frozen bank
RegisterTick_unless_frozen(b, h) ==
    /\ b \in Live
    /\ bank[b].tick_height < MaxTicks
    /\ LET current_tick_height == bank[b].tick_height + 1
       IN /\ bank' = IF is_frozen(b) THEN bank
                     ELSE [bank EXCEPT ![b].tick_height = current_tick_height]
          /\ blockhash_queue' =
                IF ~is_frozen(b)
                   /\ current_tick_height % bank[b].ticks_per_slot = bank[b].ticks_per_slot - 1
                THEN [blockhash_queue EXCEPT ![b] = register_hash(@, h)]
                ELSE blockhash_queue
          /\ status_cache' =
                IF ~is_frozen(b) /\ current_tick_height % NUM_TICKS_PER_SECOND = 0
                THEN [status_cache EXCEPT ![b] = new_cache(@)]
                ELSE status_cache
    /\ last' = [op |-> "register_tick", bank |-> b, txs |-> << >>, results |-> << >>,
                executed |-> << >>, lock_results |-> << >>]
    /\ ops' = ops + 1
    /\ UNCHANGED <<accounts, held, thr, ledger>>

\* Bank::register_tick(hash)
RegisterTick(b, h) ==
    /\ b \in Live
    /\ bank[b].tick_height < MaxTicks
    /\ LET current_tick_height == bank[b].tick_height + 1
       IN /\ bank' = [bank EXCEPT ![b].tick_height = current_tick_height]
          /\ blockhash_queue' =
                IF current_tick_height % bank[b].ticks_per_slot = bank[b].ticks_per_slot - 1
                THEN [blockhash_queue EXCEPT ![b] = register_hash(@, h)]
                ELSE blockhash_queue
          /\ status_cache' =
                IF current_tick_height % NUM_TICKS_PER_SECOND = 0
                THEN [status_cache EXCEPT ![b] = new_cache(@)]
                ELSE status_cache
    /\ last' = [op |-> "register_tick", bank |-> b, txs |-> << >>, results |-> << >>,
                executed |-> << >>, lock_results |-> << >>]
    /\ ops' = ops + 1
    /\ UNCHANGED <<accounts, held, thr, ledger>>

\* Bank::freeze()
Freeze(b) ==
    /\ b \in Live
    /\ bank' = [bank EXCEPT ![b].hash = FrozenHash(b, accounts)]
    /\ last' = [op |-> "freeze", bank |-> b, txs |-> << >>, results |-> << >>,
                executed |-> << >>, lock_results |-> << >>]
    /\ ops' = ops + 1
    /\ UNCHANGED <<blockhash_queue, status_cache, accounts, held, thr, ledger>>

\* mutation: the child keeps the tick height of Bank::default()
NewFromParent_tick_height_default(p, collector_id, slot) ==
    /\ p \in Live
    /\ \/ /\ slot = bank[p].slot
          /\ bank' = [bank EXCEPT ![p].hash = FrozenHash(p, accounts)]
          /\ last' = [op |-> "new_from_parent_panic", bank |-> p, txs |-> << >>,
                      results |-> << >>, executed |-> << >>, lock_results |-> << >>]
          /\ ops' = ops + 1
          /\ UNCHANGED <<blockhash_queue, status_cache, accounts, held, thr, ledger>>
       \/ /\ Live # BankIds
          /\ slot # bank[p].slot
          /\ LET c == CHOOSE x \in BankIds \ Live : \A y \in BankIds \ Live : x <= y
                 parent_hash == FrozenHash(p, accounts)
             IN /\ bank' = [bank EXCEPT
                              ![p].hash = parent_hash,
                              ![c] = [live |-> TRUE, slot |-> slot, parent |-> p,
                                      parent_hash |-> parent_hash, hash |-> DefaultHash,
                                      tick_height |-> 0,
                                      ticks_per_slot |-> bank[p].ticks_per_slot,
                                      collector_id |-> collector_id, is_delta |-> FALSE,
                                      epoch_schedule |-> bank[p].epoch_schedule,
                                      epoch_vote_accounts |->
                                         child_epoch_vote_accounts(
                                            bank[p].epoch_vote_accounts,
                                            get_stakers_epoch(bank[p].epoch_schedule, slot),
                                            vote_accounts(
                                               accounts_new_from_parent(accounts, accounts_id(c),
                                                                        accounts_id(p)),
                                               accounts_id(c)))]]
                /\ blockhash_queue' = [blockhash_queue EXCEPT ![c] = blockhash_queue[p]]
                /\ status_cache' = [status_cache EXCEPT ![c] = EmptyStatusCache]
                /\ accounts' = accounts_new_from_parent(accounts, accounts_id(c), accounts_id(p))
                /\ ledger' = [ledger EXCEPT !.ancestry[c] = {p} \cup ledger.ancestry[p]]
                /\ last' = [op |-> "new_from_parent", bank |-> c, txs |-> << >>, results |-> << >>,
                            executed |-> << >>, lock_results |-> << >>]
          /\ ops' = ops + 1
          /\ UNCHANGED <<held, thr>>

\* Bank::new_from_parent(parent, collector_id, slot): the child takes the
\* next free id.  parent.freeze() comes before assert_ne!(slot, parent.slot()):
\* a call with the parent's slot panics and leaves the parent frozen
NewFromParent(p, collector_id, slot) ==
    /\ p \in Live
    /\ \/ /\ slot = bank[p].slot
          /\ bank' = [bank EXCEPT ![p].hash = FrozenHash(p, accounts)]
          /\ last' = [op |-> "new_from_parent_panic", bank |-> p, txs |-> << >>,
                      results |-> << >>, executed |-> << >>, lock_results |-> << >>]
          /\ ops' = ops + 1
          /\ UNCHANGED <<blockhash_queue, status_cache, accounts, held, thr, ledger>>
       \/ /\ Live # BankIds
          /\ slot # bank[p].slot
          /\ LET c == CHOOSE x \in BankIds \ Live : \A y \in BankIds \ Live : x <= y
                 parent_hash == FrozenHash(p, accounts)
             IN /\ bank' = [bank EXCEPT
                              ![p].hash = parent_hash,
                              ![c] = [live |-> TRUE, slot |-> slot, parent |-> p,
                                      parent_hash |-> parent_hash, hash |-> DefaultHash,
                                      tick_height |-> bank[p].tick_height,
                                      ticks_per_slot |-> bank[p].ticks_per_slot,
                                      collector_id |-> collector_id, is_delta |-> FALSE,
                                      epoch_schedule |-> bank[p].epoch_schedule,
                                      epoch_vote_accounts |->
                                         child_epoch_vote_accounts(
                                            bank[p].epoch_vote_accounts,
                                            get_stakers_epoch(bank[p].epoch_schedule, slot),
                                            vote_accounts(
                                               accounts_new_from_parent(accounts, accounts_id(c),
                                                                        accounts_id(p)),
                                               accounts_id(c)))]]
                /\ blockhash_queue' = [blockhash_queue EXCEPT ![c] = blockhash_queue[p]]
                /\ status_cache' = [status_cache EXCEPT ![c] = EmptyStatusCache]
                /\ accounts' = accounts_new_from_parent(accounts, accounts_id(c), accounts_id(p))
                /\ ledger' = [ledger EXCEPT !.ancestry[c] = {p} \cup ledger.ancestry[p]]
                /\ last' = [op |-> "new_from_parent", bank |-> c, txs |-> << >>, results |-> << >>,
                            executed |-> << >>, lock_results |-> << >>]
          /\ ops' = ops + 1
          /\ UNCHANGED <<held, thr>>

\* Bank::squash()
Squash(b) ==
    /\ b \in Live
    /\ LET ps == parents(b)
           parent_caches == [i \in 1 .. Len(ps) |-> status_cache[ps[i]]]
       IN /\ bank' = [bank EXCEPT ![b].hash = FrozenHash(b, accounts), ![b].parent = NoBank]
          /\ accounts' = accounts_squash(accounts, accounts_id(b))
          /\ status_cache' = [status_cache EXCEPT ![b] = status_cache_squash(@, parent_caches)]
    /\ last' = [op |-> "squash", bank |-> b, txs |-> << >>, results |-> << >>,
                executed |-> << >>, lock_results |-> << >>]
    /\ ops' = ops + 1
    /\ UNCHANGED <<blockhash_queue, held, thr, ledger>>

\* Bank::deposit(pubkey, lamports)
Deposit(b, pubkey, lamports) ==
    /\ b \in Live
    /\ accounts' = deposit(accounts, accounts_id(b), pubkey, lamports)
    /\ last' = [op |-> "deposit", bank |-> b, txs |-> << >>, results |-> << Ok >>,
                executed |-> << >>, lock_results |-> << >>]
    /\ ops' = ops + 1
    /\ UNCHANGED <<bank, blockhash_queue, status_cache, held, thr, ledger>>

\* Bank::withdraw(pubkey, lamports)
Withdraw(b, pubkey, lamports) ==
    /\ b \in Live
    /\ LET w == withdraw(accounts, accounts_id(b), pubkey, lamports)
       IN /\ accounts' = w.A
          /\ last' = [op |-> "withdraw", bank |-> b, txs |-> << >>, results |-> << w.res >>,
                      executed |-> << >>, lock_results |-> << >>]
    /\ ops' = ops + 1
    /\ UNCHANGED <<bank, blockhash_queue, status_cache, held, thr, ledger>>

\* Bank::clear_signatures(); history: the banks whose cache was cleared
ClearSignatures(b) ==
    /\ b \in Live
    /\ status_cache' = [status_cache EXCEPT ![b] = status_cache_clear(@)]
    /\ ledger' = [ledger EXCEPT !.cleared = @ \cup {b}]
    /\ last' = [op |-> "clear_signatures", bank |-> b, txs |-> << >>, results |-> << >>,
                executed |-> << >>, lock_results |-> << >>]
    /\ ops' = ops + 1
    /\ UNCHANGED <<bank, blockhash_queue, accounts, held, thr>>

\* Bank::add_native_program(name, program_id): the program's account is
\* stored on the bank's fork
AddNativeProgram(b, program_id) ==
    /\ b \in Live
    /\ accounts' = store_slow(accounts, accounts_id(b), program_id, ProgramAccountLamports)
    /\ last' = [op |-> "add_native_program", bank |-> b, txs |-> << >>, results |-> << >>,
                executed |-> << >>, lock_results |-> << >>]
    /\ ops' = ops + 1
    /\ UNCHANGED <<bank, blockhash_queue, status_cache, held, thr, ledger>>

\* Bank::add_instruction_processor(program_id, process_instruction): it
\* takes &mut self, so the bank is not shared: no bank has it as parent
AddInstructionProcessor(b, program_id) ==
    /\ b \in Live
    /\ \A c \in Live : bank[c].parent # b
    /\ accounts' = store_slow(accounts, accounts_id(b), program_id, ProgramAccountLamports)
    /\ last' = [op |-> "add_instruction_processor", bank |-> b, txs |-> << >>,
                results |-> << >>, executed |-> << >>, lock_results |-> << >>]
    /\ ops' = ops + 1
    /\ UNCHANGED <<bank, blockhash_queue, status_cache, held, thr, ledger>>

\* collectors and slots handed to new_from_parent
Collectors == {"leader", "bob"}
NextSlots(p) == {bank[p].slot + 1}

Next ==
    \/ ops < MaxOps /\ \E b \in BankIds, txs \in ForkBatches \cup {DrainBatch} :
                          ProcessTransactions(b, txs)
    \/ ops < MaxOps /\ \E b \in BankIds, txs \in HeldBatches : LockAccounts(b, txs)
    \/ ops < MaxOps /\ \E h \in held : LoadExecuteAndCommit(h)
    \/ ops < MaxOps /\ \E h \in held : UnlockAccounts(h)
    \/ ops < MaxOps /\ \E b \in BankIds, h \in TickHashes : RegisterTick(b, h)
    \/ ops < MaxOps /\ \E b \in BankIds : Freeze(b)
    \/ ops < MaxOps /\ \E p \in BankIds, c \in Collectors :
                          \E slot \in NextSlots(p) : NewFromParent(p, c, slot)
    \/ ops < MaxOps /\ \E b \in BankIds : Squash(b)
    \/ ops < MaxOps /\ \E b \in BankIds : Deposit(b, "alice", 1)
    \/ ops < MaxOps /\ \E b \in BankIds : Withdraw(b, "alice", 1)
    \/ ops < MaxOps /\ \E b \in BankIds : Withdraw(b, "leader", DrainLamports)
    \/ ops < MaxOps /\ \E b \in BankIds : ClearSignatures(b)
    \/ ops < MaxOps /\ \E b \in BankIds : AddNativeProgram(b, "program")
    \/ ops < MaxOps /\ \E b \in BankIds : AddInstructionProcessor(b, "program")

Spec == Init /\ [][Next]_vars

----------------------------------------------------------------------------
(* The genesis bank under callers that hold account locks                  *)
(* (lock_accounts, load_execute_and_commit_transactions, unlock_accounts)  *)
(* while other callers submit batches with process_transactions.           *)

\* operations performed in one behaviour
MaxLockOps == 4

LockTxs == { Signed_tx(1), Signed_tx(2), Signed_tx(3), Signed_tx(11) }

NextLocks ==
    \/ ops < MaxLockOps /\ \E txs \in SeqsUpTo(LockTxs, MaxBatch) : ProcessTransactions(0, txs)
    \/ ops < MaxLockOps /\ \E tx \in LockTxs : LockAccounts(0, << tx >>)
    \/ ops < MaxLockOps /\ \E h \in held : LoadExecuteAndCommit(h)
    \/ ops < MaxLockOps /\ \E h \in held : UnlockAccounts(h)

SpecLocks == Init /\ [][NextLocks]_vars

----------------------------------------------------------------------------
(* One batch submitted to the genesis bank with process_transactions,      *)
(* before it possibly a withdrawal from the mint, a caller taking locks,   *)
(* or the mint's first transfer processed on its own.                      *)

\* operations performed in one behaviour
MaxBatchOps == 2
\* transactions in the batch
MaxBatchLen == 3

BatchTxs ==
    { Signed_tx(sig) : sig \in {1, 2, 3, 4, 8, 9, 10, 11, 12, 13} }
    \cup { Unsigned_tx(MoveMessage("mint", "alice", 1, GenesisHash, 0)),
           Unsigned_tx(MoveMessage("mint", "alice", 1, GenesisHash, 1)) }

NextBatch ==
    \/ ops < MaxBatchOps /\ last.op = "init" /\ \E tx \in BatchTxs : LockAccounts(0, << tx >>)
    \/ ops < MaxBatchOps /\ last.op = "init" /\ Withdraw(0, "mint", 1)
    \/ ops < MaxBatchOps /\ (last.op = "process_transactions" => last.txs = << Signed_tx(1) >>)
          /\ \E txs \in SeqsUpTo(BatchTxs, MaxBatchLen) : ProcessTransactions(0, txs)

SpecBatch == Init /\ [][NextBatch]_vars

----------------------------------------------------------------------------
(* Threads that each make one call on a bank of one fork graph.  A step of *)
(* a thread is one access to the state the threads share: the lock table   *)
(* and the forks of the accounts store, the atomic tick height and         *)
(* is_delta, the blockhash queue, a parent pointer, a status cache.  What   *)
(* a thread computes in between on values of its own is part of the step   *)
(* that read them.                                                         *)
(*                                                                         *)
(* The status cache of a bank is behind an RwLock: a read guard is held    *)
(* from its read() to the end of the function, a write() waits until no    *)
(* read guard is out.  std::sync::RwLock leaves open whether a reader gets *)
(* the lock while a writer is waiting for it; writers_first is that        *)
(* choice.  The locks of the blockhash queue and of a parent pointer are   *)
(* taken and released within the statement that is the step.  The write    *)
(* lock of hash is held by freeze alone, and one thread freezes.           *)

Threads == {1, 2}

\* thread 3 is the one that freezes and squashes
CallThreads == Threads \cup {3}

\* hash: the hash register_tick is called with;
\* walk: the bank whose parent pointer parents() reads next; parents: the
\* parents read so far; guards: the banks whose status cache the call holds
\* a read guard of; lock_results: what lock_accounts returned; gate: the
\* results as check_age and check_signatures pass them on; i: the position
\* of the loop over the results in filter_program_errors_and_collect_fee;
\* account: the account a withdraw or deposit has read; found is history:
\* the accounts store as the call found it when it took its locks
CallIdle ==
    [pc |-> "idle", op |-> "none", bank |-> 0, txs |-> << >>, hash |-> GenesisHash,
     walk |-> NoBank, parents |-> << >>, guards |-> << >>,
     lock_results |-> << >>, gate |-> << >>, loaded |-> << >>, executed |-> << >>,
     current_tick_height |-> 0, i |-> 1, fees |-> 0, results |-> << >>,
     account |-> NoAccount, found |-> GenesisAccounts]

\* the call record of a thread that has entered op on bank b
Entered(op, b, txs) ==
    [CallIdle EXCEPT !.pc = IF op \in {"get_signature_status", "has_signature"}
                            THEN "parents" ELSE "start",
                     !.op = op, !.bank = b, !.txs = txs, !.walk = b]

\* the banks whose status cache the call reads, in the order of its read()
\* calls: squash reads the parents', the others the bank's own first
Want(t) ==
    IF thr.call[t].op = "squash" THEN thr.call[t].parents
    ELSE << thr.call[t].bank >> \o thr.call[t].parents

\* the threads that hold a read guard of the status cache of bank x
CacheReaders(x) == {t \in CallThreads : x \in Range(thr.call[t].guards)}

\* the threads that wait in status_cache.write() of bank x
CacheWriters(x) ==
    {t \in CallThreads : thr.call[t].pc = "blocked" /\ thr.call[t].bank = x}

\* status_cache.read() of bank x returns
CanRead(x) == thr.writers_first => CacheWriters(x) = {}

\* status_cache.write() of bank x returns
CanWrite(x) == CacheReaders(x) = {}

\* the status caches behind the read guards of thread t
GuardedCaches(t) ==
    [i \in 1 .. Len(thr.call[t].guards) |-> status_cache[thr.call[t].guards[i]]]

\* no call has begun: the fork graph is still being made
NoCallYet == \A t \in CallThreads : thr.call[t].pc = "idle"

\* a thread enters a function of the bank
CallBegin(t, op, b, txs) ==
    /\ thr.call[t].pc = "idle"
    /\ b \in Live
    /\ thr' = [thr EXCEPT !.call[t] = Entered(op, b, txs)]
    /\ UNCHANGED <<bank, blockhash_queue, status_cache, accounts, held, last, ledger, ops>>

\* a thread enters register_tick(hash)
CallBeginTick(t, b, h) ==
    /\ thr.call[t].pc = "idle"
    /\ b \in Live
    /\ thr' = [thr EXCEPT !.call[t] = [Entered("register_tick", b, << >>) EXCEPT !.hash = h]]
    /\ UNCHANGED <<bank, blockhash_queue, status_cache, accounts, held, last, ledger, ops>>

\* process_transactions: let lock_results = self.lock_accounts(txs); a
\* transaction that finds a key locked gets AccountInUse, the call goes on
CallLockAccounts(t) ==
    /\ thr.call[t].op = "process_transactions"
    /\ thr.call[t].pc = "start"
    /\ \E l \in {accounts_lock_accounts(accounts, accounts_id(thr.call[t].bank),
                                        thr.call[t].txs)} :
          /\ accounts' = l.A
          /\ thr' = [thr EXCEPT !.call[t].pc = "age", !.call[t].lock_results = l.results,
                                !.call[t].found = accounts]
    /\ UNCHANGED <<bank, blockhash_queue, status_cache, held, last, ledger, ops>>

\* load_and_execute_transactions: check_age, under the read lock of the
\* blockhash queue
CallCheckAge(t) ==
    /\ thr.call[t].pc = "age"
    /\ thr' = [thr EXCEPT !.call[t].pc = "parents",
                          !.call[t].gate =
                              check_age(blockhash_queue[thr.call[t].bank], thr.call[t].txs,
                                        thr.call[t].lock_results, MAX_RECENT_BLOCKHASHES)]
    /\ UNCHANGED <<bank, blockhash_queue, status_cache, accounts, held, last, ledger, ops>>

\* parents(): one read of a parent pointer, self.parent() first, then
\* parent.parent() until it is None
CallParents(t) ==
    /\ thr.call[t].pc = "parents"
    /\ IF bank[thr.call[t].walk].parent = NoBank
       THEN thr' = [thr EXCEPT !.call[t].pc = IF thr.call[t].op = "squash" THEN "drop"
                                              ELSE "read"]
       ELSE thr' = [thr EXCEPT !.call[t].parents = Append(@, bank[thr.call[t].walk].parent),
                               !.call[t].walk = bank[thr.call[t].walk].parent]
    /\ UNCHANGED <<bank, blockhash_queue, status_cache, accounts, held, last, ledger, ops>>

\* b.status_cache.read().unwrap(): the next read guard of the call
CallReadCache(t) ==
    /\ thr.call[t].pc = "read"
    /\ Len(thr.call[t].guards) < Len(Want(t))
    /\ CanRead(Want(t)[Len(thr.call[t].guards) + 1])
    /\ thr' = [thr EXCEPT !.call[t].guards = Append(@, Want(t)[Len(thr.call[t].guards) + 1])]
    /\ UNCHANGED <<bank, blockhash_queue, status_cache, accounts, held, last, ledger, ops>>

\* check_signatures: the loop over the transactions with the read guards
\* held; the guards are dropped when it returns
CallCheckSignatures(t) ==
    /\ thr.call[t].op = "process_transactions"
    /\ thr.call[t].pc = "read"
    /\ thr.call[t].guards = Want(t)
    /\ thr' = [thr EXCEPT !.call[t].pc = "load", !.call[t].guards = << >>,
                          !.call[t].gate = check_signatures(GuardedCaches(t),
                                                            thr.call[t].txs, @)]
    /\ UNCHANGED <<bank, blockhash_queue, status_cache, accounts, held, last, ledger, ops>>

\* load_and_execute_transactions: self.accounts.load_accounts(...)
CallLoadAccounts(t) ==
    /\ thr.call[t].pc = "load"
    /\ thr' = [thr EXCEPT !.call[t].pc = "run",
                          !.call[t].loaded =
                              accounts_load_accounts(accounts, accounts_id(thr.call[t].bank),
                                                     thr.call[t].txs, thr.call[t].gate)]
    /\ UNCHANGED <<bank, blockhash_queue, status_cache, accounts, held, last, ledger, ops>>

\* load_and_execute_transactions: let tick_height = self.tick_height(), and
\* the execution of the loaded transactions on the thread's copies
CallRun(t) ==
    /\ thr.call[t].pc = "run"
    /\ \E le \in {execute_loaded(thr.call[t].bank,
                     [A |-> accounts, results |-> thr.call[t].lock_results],
                     thr.call[t].txs, thr.call[t].loaded)} :
          thr' = [thr EXCEPT !.call[t].pc = "count", !.call[t].loaded = le.loaded,
                             !.call[t].executed = le.executed]
    /\ UNCHANGED <<bank, blockhash_queue, status_cache, accounts, held, last, ledger, ops>>

\* load_and_execute_transactions:
\* self.accounts.increment_transaction_count(self.accounts_id, tx_count),
\* tx_count being the entries of executed that are Ok
CallCount(t) ==
    /\ thr.call[t].pc = "count"
    /\ accounts' = increment_transaction_count(accounts, accounts_id(thr.call[t].bank),
                      Cardinality({i \in 1 .. Len(thr.call[t].executed) :
                                     IsOk(thr.call[t].executed[i])}))
    /\ thr' = [thr EXCEPT !.call[t].pc = "delta"]
    /\ UNCHANGED <<bank, blockhash_queue, status_cache, held, last, ledger, ops>>

\* commit_transactions: self.is_delta.store(true, Ordering::Relaxed)
CallIsDelta(t) ==
    /\ thr.call[t].pc = "delta"
    /\ bank' = [bank EXCEPT ![thr.call[t].bank].is_delta = TRUE]
    /\ thr' = [thr EXCEPT !.call[t].pc = "store"]
    /\ UNCHANGED <<blockhash_queue, status_cache, accounts, held, last, ledger, ops>>

\* commit_transactions: self.accounts.store_accounts(...)
CallStoreAccounts(t) ==
    /\ thr.call[t].pc = "store"
    /\ accounts' = accounts_store_accounts(accounts, accounts_id(thr.call[t].bank),
                                           thr.call[t].txs, thr.call[t].executed,
                                           thr.call[t].loaded)
    /\ thr' = [thr EXCEPT !.call[t].pc = "write"]
    /\ UNCHANGED <<bank, blockhash_queue, status_cache, held, last, ledger, ops>>

\* self.status_cache.write() finds a read guard out: the thread waits
CallBlockOnWrite(t) ==
    /\ \/ thr.call[t].pc = "write"
       \/ thr.call[t].op = "squash" /\ thr.call[t].pc = "read"
             /\ thr.call[t].guards = Want(t)
    /\ ~CanWrite(thr.call[t].bank)
    /\ thr' = [thr EXCEPT !.call[t].pc = "blocked"]
    /\ UNCHANGED <<bank, blockhash_queue, status_cache, accounts, held, last, ledger, ops>>

\* commit_transactions: update_transaction_statuses, under the write lock
\* of the status cache; the history counts the transactions as committed
CallStatuses(t) ==
    /\ thr.call[t].op = "process_transactions"
    /\ thr.call[t].pc \in {"write", "blocked"}
    /\ CanWrite(thr.call[t].bank)
    /\ status_cache' = [status_cache EXCEPT ![thr.call[t].bank] =
                           update_transaction_statuses(@, thr.call[t].txs,
                                                       thr.call[t].executed)]
    /\ thr' = [thr EXCEPT !.call[t].pc = "fees"]
    /\ ledger' = [ledger EXCEPT !.commits = Commits(@, thr.call[t].bank, thr.call[t].txs,
                                                    thr.call[t].executed)]
    /\ UNCHANGED <<bank, blockhash_queue, accounts, held, last, ops>>

\* filter_program_errors_and_collect_fee: the next result of the loop.  For
\* an InstructionError it is the get_account of self.withdraw(payer, fee);
\* any other result is settled on the thread's own values
CallCollectFee(t) ==
    /\ thr.call[t].pc = "fees"
    /\ thr.call[t].i <= Len(thr.call[t].txs)
    /\ IF thr.call[t].executed[thr.call[t].i].kind = "InstructionError"
       THEN thr' = [thr EXCEPT !.call[t].pc = "withdraw",
                               !.call[t].account =
                                  load_slow(accounts, accounts_id(thr.call[t].bank),
                                     thr.call[t].txs[thr.call[t].i].account_keys[1])]
       ELSE \E f \in {collect_fee([A |-> accounts, fees |-> thr.call[t].fees,
                                   results |-> thr.call[t].results],
                                  accounts_id(thr.call[t].bank),
                                  thr.call[t].txs[thr.call[t].i],
                                  thr.call[t].executed[thr.call[t].i])} :
               thr' = [thr EXCEPT !.call[t].i = @ + 1, !.call[t].fees = f.fees,
                                  !.call[t].results = f.results]
    /\ UNCHANGED <<bank, blockhash_queue, status_cache, accounts, held, last, ledger, ops>>

\* withdraw: the checks on the account read and self.accounts.store_slow
CallWithdrawStore(t) ==
    /\ thr.call[t].pc = "withdraw"
    /\ \E f \in {fee_withdrawn([A |-> accounts, fees |-> thr.call[t].fees,
                                results |-> thr.call[t].results],
                               thr.call[t].txs[thr.call[t].i],
                               withdraw_from(accounts, accounts_id(thr.call[t].bank),
                                  thr.call[t].txs[thr.call[t].i].account_keys[1],
                                  thr.call[t].txs[thr.call[t].i].fee,
                                  thr.call[t].account))} :
          /\ accounts' = f.A
          /\ thr' = [thr EXCEPT !.call[t].pc = "fees", !.call[t].i = @ + 1,
                                !.call[t].fees = f.fees, !.call[t].results = f.results]
    /\ UNCHANGED <<bank, blockhash_queue, status_cache, held, last, ledger, ops>>

\* deposit(collector_id, fees): let mut account = self.get_account(pubkey)
CallDepositLoad(t) ==
    /\ thr.call[t].pc = "fees"
    /\ thr.call[t].i > Len(thr.call[t].txs)
    /\ thr' = [thr EXCEPT !.call[t].pc = "deposit",
                          !.call[t].account =
                             load_slow(accounts, accounts_id(thr.call[t].bank),
                                       bank[thr.call[t].bank].collector_id)]
    /\ UNCHANGED <<bank, blockhash_queue, status_cache, accounts, held, last, ledger, ops>>

\* deposit(collector_id, fees): account.lamports += lamports; store_slow
CallDepositStore(t) ==
    /\ thr.call[t].pc = "deposit"
    /\ accounts' = deposit_to(accounts, accounts_id(thr.call[t].bank),
                              bank[thr.call[t].bank].collector_id,
                              thr.call[t].fees, thr.call[t].account)
    /\ thr' = [thr EXCEPT !.call[t].pc = "unlock"]
    /\ UNCHANGED <<bank, blockhash_queue, status_cache, held, last, ledger, ops>>

\* process_transactions: self.unlock_accounts(txs, &results); results
CallUnlock(t) ==
    /\ thr.call[t].pc = "unlock"
    /\ accounts' = accounts_unlock_accounts(accounts, accounts_id(thr.call[t].bank),
                                            thr.call[t].txs, thr.call[t].results)
    /\ thr' = [thr EXCEPT !.call[t].pc = "returned"]
    /\ UNCHANGED <<bank, blockhash_queue, status_cache, held, last, ledger, ops>>

\* register_tick: self.tick_height.fetch_add(1, Ordering::SeqCst)
CallTickFetchAdd(t) ==
    /\ thr.call[t].op = "register_tick"
    /\ thr.call[t].pc = "start"
    /\ bank' = [bank EXCEPT ![thr.call[t].bank].tick_height = @ + 1]
    /\ thr' = [thr EXCEPT !.call[t].pc = "added"]
    /\ UNCHANGED <<blockhash_queue, status_cache, accounts, held, last, ledger, ops>>

\* register_tick: self.tick_height.load(Ordering::SeqCst) as u64
CallTickLoad(t) ==
    /\ thr.call[t].pc = "added"
    /\ thr' = [thr EXCEPT !.call[t].pc = "tick",
                          !.call[t].current_tick_height =
                             bank[thr.call[t].bank].tick_height]
    /\ UNCHANGED <<bank, blockhash_queue, status_cache, accounts, held, last, ledger, ops>>

\* register_tick: register a new blockhash at the last tick of the slot,
\* under the write lock of the blockhash queue; the call goes on to the
\* status cache when a shard is due
CallTickRegisterHash(t) ==
    /\ thr.call[t].pc = "tick"
    /\ blockhash_queue' =
          IF thr.call[t].current_tick_height % bank[thr.call[t].bank].ticks_per_slot
                = bank[thr.call[t].bank].ticks_per_slot - 1
          THEN [blockhash_queue EXCEPT ![thr.call[t].bank] =
                   register_hash(@, thr.call[t].hash)]
          ELSE blockhash_queue
    /\ thr' = [thr EXCEPT !.call[t].pc =
                  IF thr.call[t].current_tick_height % NUM_TICKS_PER_SECOND = 0
                  THEN "write" ELSE "returned"]
    /\ UNCHANGED <<bank, status_cache, accounts, held, last, ledger, ops>>

\* register_tick: self.status_cache.write().unwrap().new_cache(hash)
CallNewCache(t) ==
    /\ thr.call[t].op = "register_tick"
    /\ thr.call[t].pc \in {"write", "blocked"}
    /\ CanWrite(thr.call[t].bank)
    /\ status_cache' = [status_cache EXCEPT ![thr.call[t].bank] = new_cache(@)]
    /\ thr' = [thr EXCEPT !.call[t].pc = "returned"]
    /\ UNCHANGED <<bank, blockhash_queue, accounts, held, last, ledger, ops>>

\* get_signature_status: StatusCache::get_signature_status_all(&caches, sig);
\* has_signature: StatusCache::has_signature_all(&caches, sig)
CallQueryReturn(t) ==
    /\ thr.call[t].op \in {"get_signature_status", "has_signature"}
    /\ thr.call[t].pc = "read"
    /\ thr.call[t].guards = Want(t)
    /\ thr' = [thr EXCEPT !.call[t].pc = "returned", !.call[t].guards = << >>,
                          !.call[t].results =
                             IF thr.call[t].op = "get_signature_status"
                             THEN << get_signature_status_all(GuardedCaches(t),
                                        thr.call[t].txs[1].signatures[1]) >>
                             ELSE << [kind |-> "bool",
                                      value |-> has_signature_all(GuardedCaches(t),
                                                   thr.call[t].txs[1].signatures[1])] >>]
    /\ UNCHANGED <<bank, blockhash_queue, status_cache, accounts, held, last, ledger, ops>>

\* the position of a call after freeze has returned
Frozen(t) == IF thr.call[t].op = "freeze" THEN "returned" ELSE "parents"

\* freeze, and the self.freeze() squash begins with: the write lock of hash
\* and the test of the hash; hash_internal_state begins with
\* self.accounts.has_accounts(self.accounts_id), and a fork without
\* accounts is given the parent's hash
CallFreezeHasAccounts(t) ==
    /\ thr.call[t].op \in {"freeze", "squash"}
    /\ thr.call[t].pc = "start"
    /\ IF bank[thr.call[t].bank].hash # DefaultHash
       THEN /\ thr' = [thr EXCEPT !.call[t].pc = Frozen(t)]
            /\ bank' = bank
       ELSE IF has_accounts(accounts, accounts_id(thr.call[t].bank))
       THEN /\ thr' = [thr EXCEPT !.call[t].pc = "hash"]
            /\ bank' = bank
       ELSE /\ thr' = [thr EXCEPT !.call[t].pc = Frozen(t)]
            /\ bank' = [bank EXCEPT ![thr.call[t].bank].hash =
                           bank[thr.call[t].bank].parent_hash]
    /\ UNCHANGED <<blockhash_queue, status_cache, accounts, held, last, ledger, ops>>

\* hash_internal_state: self.accounts.hash_internal_state(self.accounts_id),
\* extended from the parent's hash and stored
CallFreezeHash(t) ==
    /\ thr.call[t].pc = "hash"
    /\ bank' = [bank EXCEPT ![thr.call[t].bank].hash =
                   extend_and_hash(bank[thr.call[t].bank].parent_hash,
                      accounts_delta(accounts, accounts_id(thr.call[t].bank)))]
    /\ thr' = [thr EXCEPT !.call[t].pc = Frozen(t)]
    /\ UNCHANGED <<blockhash_queue, status_cache, accounts, held, last, ledger, ops>>

\* squash: *self.parent.write().unwrap() = None
CallSquashDropParent(t) ==
    /\ thr.call[t].pc = "drop"
    /\ bank' = [bank EXCEPT ![thr.call[t].bank].parent = NoBank]
    /\ thr' = [thr EXCEPT !.call[t].pc = "squash"]
    /\ UNCHANGED <<blockhash_queue, status_cache, accounts, held, last, ledger, ops>>

\* squash: self.accounts.squash(self.accounts_id); the read guards of the
\* parents' caches are taken next
CallSquashAccounts(t) ==
    /\ thr.call[t].pc = "squash"
    /\ accounts' = accounts_squash(accounts, accounts_id(thr.call[t].bank))
    /\ thr' = [thr EXCEPT !.call[t].pc = "read"]
    /\ UNCHANGED <<bank, blockhash_queue, status_cache, held, last, ledger, ops>>

\* squash: self.status_cache.write().unwrap().squash(&parent_caches), with
\* the read guards of the parents' caches held
CallSquashCaches(t) ==
    /\ thr.call[t].op = "squash"
    /\ \/ thr.call[t].pc = "read" /\ thr.call[t].guards = Want(t)
       \/ thr.call[t].pc = "blocked"
    /\ CanWrite(thr.call[t].bank)
    /\ status_cache' = [status_cache EXCEPT ![thr.call[t].bank] =
                           status_cache_squash(@, GuardedCaches(t))]
    /\ thr' = [thr EXCEPT !.call[t].pc = "returned", !.call[t].guards = << >>]
    /\ UNCHANGED <<bank, blockhash_queue, accounts, held, last, ledger, ops>>

\* a step of thread t inside process_transactions
BatchStep(t) ==
    \/ CallLockAccounts(t)
    \/ CallCheckAge(t)
    \/ CallParents(t)
    \/ CallReadCache(t)
    \/ CallCheckSignatures(t)
    \/ CallLoadAccounts(t)
    \/ CallRun(t)
    \/ CallCount(t)
    \/ CallIsDelta(t)
    \/ CallStoreAccounts(t)
    \/ CallBlockOnWrite(t)
    \/ CallStatuses(t)
    \/ CallCollectFee(t)
    \/ CallWithdrawStore(t)
    \/ CallDepositLoad(t)
    \/ CallDepositStore(t)
    \/ CallUnlock(t)

\* a step of thread t inside register_tick, get_signature_status,
\* has_signature, freeze or squash
OtherStep(t) ==
    \/ CallTickFetchAdd(t)
    \/ CallTickLoad(t)
    \/ CallTickRegisterHash(t)
    \/ CallNewCache(t)
    \/ CallQueryReturn(t)
    \/ CallFreezeHasAccounts(t)
    \/ CallFreezeHash(t)
    \/ CallSquashDropParent(t)
    \/ CallSquashAccounts(t)
    \/ CallSquashCaches(t)

\* a step of thread t inside its call
CallStep(t) == BatchStep(t) \/ OtherStep(t)

----------------------------------------------------------------------------
(* Two threads that share the genesis bank and each submit one batch with  *)
(* process_transactions.  The batches have no account key in common.       *)

\* the batches the threads submit: the first thread spends from the mint
\* (the second message ends with an instruction error), the second from the
\* vote account; the leader collects the fees
ThreadBatches ==
    [Threads -> {<< >>}] \cup
    { [t \in Threads |-> IF t = 1 THEN << Signed_tx(a) >> ELSE << Signed_tx(v) >>] :
        a \in {1, 2, 14}, v \in {15} } \cup
    { [t \in Threads |-> IF t = 1 THEN << Signed_tx(14), Signed_tx(7) >>
                         ELSE << Signed_tx(15) >>] }

\* the threads have entered process_transactions with their batches
InBatches(batches, w) ==
    [writers_first |-> w,
     call |-> [t \in CallThreads |->
                 IF t \in Threads
                 THEN Entered("process_transactions", 0, batches[t])
                 ELSE CallIdle]]

InitConc ==
    /\ bank = [b \in BankIds |-> IF b = 0 THEN GenesisBank ELSE DeadBank]
    /\ blockhash_queue = [b \in BankIds |-> genesis_hash(GenesisHash)]
    /\ status_cache = [b \in BankIds |-> EmptyStatusCache]
    /\ accounts = GenesisAccounts
    /\ held = {}
    /\ \E batches \in ThreadBatches, w \in BOOLEAN : thr = InBatches(batches, w)
    /\ last = NoOp
    /\ ledger = [commits |-> [b \in BankIds |-> [s \in Signatures |-> 0]],
                 ancestry |-> [b \in BankIds |-> {}],
                 rejected |-> {},
                 blocked |-> {},
                 released |-> {},
                 cleared |-> {}]
    /\ ops = 0

NextConc == \E t \in Threads : BatchStep(t)

SpecConc == InitConc /\ [][NextConc]_vars

----------------------------------------------------------------------------
(* The two threads of SpecConc with batches that have a key in common: the *)
(* first thread spends from the mint, the second from the mint or from     *)
(* alice.                                                                  *)

OverlapBatches ==
    { [t \in Threads |-> IF t = 1 THEN << Signed_tx(a) >> ELSE b] :
        a \in {1, 2, 14},
        b \in { << Signed_tx(6) >>, << Signed_tx(3) >>, << Signed_tx(15), Signed_tx(7) >> } }

InitOverlap ==
    /\ bank = [b \in BankIds |-> IF b = 0 THEN GenesisBank ELSE DeadBank]
    /\ blockhash_queue = [b \in BankIds |-> genesis_hash(GenesisHash)]
    /\ status_cache = [b \in BankIds |-> EmptyStatusCache]
    /\ accounts = GenesisAccounts
    /\ held = {}
    /\ \E batches \in OverlapBatches, w \in BOOLEAN : thr = InBatches(batches, w)
    /\ last = NoOp
    /\ ledger = [commits |-> [b \in BankIds |-> [s \in Signatures |-> 0]],
                 ancestry |-> [b \in BankIds |-> {}],
                 rejected |-> {},
                 blocked |-> {},
                 released |-> {},
                 cleared |-> {}]
    /\ ops = 0

SpecOverlap == InitOverlap /\ [][NextConc]_vars

----------------------------------------------------------------------------
(* Two threads that call register_tick on the genesis bank.  A step of a   *)
(* thread is one access to the state the threads share: the atomic tick    *)
(* height, the blockhash queue, the status cache.                          *)

\* register_tick calls made by one thread
MaxTickCalls == 2

TickIdle ==
    [pc |-> "idle", hash |-> DefaultHash, current_tick_height |-> 0, calls |-> 0,
     seen |-> << >>, registered |-> << >>]

InitTicks ==
    /\ bank = [b \in BankIds |-> IF b = 0 THEN GenesisBank ELSE DeadBank]
    /\ blockhash_queue = [b \in BankIds |-> genesis_hash(GenesisHash)]
    /\ status_cache = [b \in BankIds |-> EmptyStatusCache]
    /\ accounts = GenesisAccounts
    /\ held = {}
    /\ thr = [t \in Threads |-> TickIdle]
    /\ last = NoOp
    /\ ledger = [commits |-> [b \in BankIds |-> [s \in Signatures |-> 0]],
                 ancestry |-> [b \in BankIds |-> {}],
                 rejected |-> {},
                 blocked |-> {},
                 released |-> {},
                 cleared |-> {}]
    /\ ops = 0

\* register_tick: self.tick_height.fetch_add(1, Ordering::SeqCst)
TickFetchAdd(t, h) ==
    /\ thr[t].pc = "idle"
    /\ thr[t].calls < MaxTickCalls
    /\ bank' = [bank EXCEPT ![0].tick_height = @ + 1]
    /\ thr' = [thr EXCEPT ![t].pc = "added", ![t].hash = h]
    /\ UNCHANGED <<blockhash_queue, status_cache, accounts, held, last, ledger, ops>>

\* register_tick: self.tick_height.load(Ordering::SeqCst) as u64
TickLoad(t) ==
    /\ thr[t].pc = "added"
    /\ thr' = [thr EXCEPT ![t].pc = "loaded",
                          ![t].current_tick_height = bank[0].tick_height,
                          ![t].seen = Append(@, bank[0].tick_height)]
    /\ UNCHANGED <<bank, blockhash_queue, status_cache, accounts, held, last, ledger, ops>>

\* register_tick: register a new blockhash at the last tick of the slot
TickRegisterHash(t) ==
    /\ thr[t].pc = "loaded"
    /\ IF thr[t].current_tick_height % bank[0].ticks_per_slot = bank[0].ticks_per_slot - 1
       THEN /\ blockhash_queue' = [blockhash_queue EXCEPT ![0] = register_hash(@, thr[t].hash)]
            /\ thr' = [thr EXCEPT ![t].pc = "registered",
                                  ![t].registered = Append(@, thr[t].current_tick_height)]
       ELSE /\ blockhash_queue' = blockhash_queue
            /\ thr' = [thr EXCEPT ![t].pc = "registered"]
    /\ UNCHANGED <<bank, status_cache, accounts, held, last, ledger, ops>>

\* register_tick: a new status cache shard every NUM_TICKS_PER_SECOND ticks
TickNewCache(t) ==
    /\ thr[t].pc = "registered"
    /\ status_cache' =
          IF thr[t].current_tick_height % NUM_TICKS_PER_SECOND = 0
          THEN [status_cache EXCEPT ![0] = new_cache(@)]
          ELSE status_cache
    /\ thr' = [thr EXCEPT ![t].pc = "idle", ![t].calls = @ + 1]
    /\ UNCHANGED <<bank, blockhash_queue, accounts, held, last, ledger, ops>>

NextTicks ==
    \/ \E t \in Threads, h \in TickHashes : TickFetchAdd(t, h)
    \/ \E t \in Threads : TickLoad(t)
    \/ \E t \in Threads : TickRegisterHash(t)
    \/ \E t \in Threads : TickNewCache(t)

SpecTicks == InitTicks /\ [][NextTicks]_vars

----------------------------------------------------------------------------
(* Two banks made by Bank::new from the same genesis block, as in          *)
(* test_bank_hash_internal_state: bank 0 and bank 1 process the same       *)
(* batches one after the other, then one of them is checkpointed with      *)
(* new_from_parent.  Either bank may be frozen between two batches, the    *)
(* other one not.  Each Bank::new has an Accounts store of its own; it is  *)
(* fork 1 without parents here.                                            *)

\* operations of one behaviour: two batches on each bank, a freeze and the
\* checkpoint
MaxTwinOps == 6

TwinBanks == {0, 1}

TwinAccounts ==
    [GenesisAccounts EXCEPT !.acct[1] = GenesisAccounts.acct[0]]

InitTwin ==
    /\ bank = [b \in BankIds |-> IF b \in TwinBanks THEN GenesisBank ELSE DeadBank]
    /\ blockhash_queue = [b \in BankIds |-> genesis_hash(GenesisHash)]
    /\ status_cache = [b \in BankIds |-> EmptyStatusCache]
    /\ accounts = TwinAccounts
    /\ held = {}
    /\ thr = << >>
    /\ last = NoOp
    /\ ledger = [commits |-> [b \in BankIds |-> [s \in Signatures |-> 0]],
                 ancestry |-> [b \in BankIds |-> {}],
                 rejected |-> {},
                 blocked |-> {},
                 released |-> {},
                 cleared |-> {}]
    /\ ops = 0

\* both banks have processed the same sequence of batches
InStep ==
    \/ last.op \in {"init", "freeze"}
    \/ last.op = "process_transactions" /\ last.bank = 1

NextTwin ==
    \/ ops < MaxTwinOps - 1 /\ InStep
          /\ \E txs \in ForkBatches : ProcessTransactions(0, txs)
    \/ ops < MaxTwinOps - 1 /\ last.op = "process_transactions" /\ last.bank = 0
          /\ ProcessTransactions(1, last.txs)
    \/ ops < MaxTwinOps /\ InStep
          /\ \E b \in TwinBanks : Freeze(b)
    \/ ops < MaxTwinOps /\ InStep
          /\ \E p \in TwinBanks : NewFromParent(p, "leader", 1)

SpecTwin == InitTwin /\ [][NextTwin]_vars

----------------------------------------------------------------------------
(* Submitting a transaction again: single transactions are submitted on a  *)
(* bank and on its child while callers hold account locks and ticks age    *)
(* the blockhashes.                                                        *)

\* operations performed in one behaviour
MaxRetryOps == 5
\* banks of the behaviour: the genesis bank and one child
MaxRetryBanks == 2

\* a transfer that succeeds, one that ends with an instruction error after
\* its fee was taken, one whose payer cannot pay the fee
RetryTxs == { Signed_tx(sig) : sig \in {1, 2, 8} }

NextRetry ==
    \/ ops < MaxRetryOps /\ \E b \in BankIds, tx \in RetryTxs : ProcessTransactions(b, << tx >>)
    \/ ops < MaxRetryOps /\ \E b \in BankIds, tx \in RetryTxs : LockAccounts(b, << tx >>)
    \/ ops < MaxRetryOps /\ \E h \in held : UnlockAccounts(h)
    \/ ops < MaxRetryOps /\ \E b \in BankIds : RegisterTick(b, "h1")
    \/ ops < MaxRetryOps /\ Cardinality(Live) < MaxRetryBanks
          /\ NewFromParent(0, "leader", 1)
    \/ ops < MaxRetryOps /\ \E b \in BankIds : Squash(b)

SpecRetry == Init /\ [][NextRetry]_vars

----------------------------------------------------------------------------
(* The bank graphs new_from_parent builds: the slot of a child is any      *)
(* number the assertion of new_from_parent lets through.                   *)

\* operations performed in one behaviour
MaxSlotOps == 4
\* slots handed to new_from_parent
MaxSlot == 5

Slots == 0 .. MaxSlot

NextSlotGraph ==
    \/ ops < MaxSlotOps
          /\ \E p \in BankIds, slot \in Slots : NewFromParent(p, "leader", slot)
    \/ ops < MaxSlotOps /\ \E b \in BankIds : Squash(b)

SpecSlots == Init /\ [][NextSlotGraph]_vars

----------------------------------------------------------------------------
(* EpochSchedule on its own, as in test_epoch_schedule: a schedule is made *)
(* by EpochSchedule::new and asked about one slot after the other.  thr    *)
(* holds the schedule, the slot and what the queries returned for it.      *)

\* slots_per_epoch, stakers_slot_offset and slots of the schedules explored
MaxSlotsPerEpoch == 9
MaxStakersOffset == 10
MaxEpochSlot == 20

\* what the schedule answers for a slot
Asked(sch, slot) ==
    [schedule |-> sch,
     slot |-> slot,
     epoch_and_slot_index |-> get_epoch_and_slot_index(sch, slot),
     stakers_epoch |-> get_stakers_epoch(sch, slot)]

InitEpoch ==
    /\ bank = [b \in BankIds |-> IF b = 0 THEN GenesisBank ELSE DeadBank]
    /\ blockhash_queue = [b \in BankIds |-> genesis_hash(GenesisHash)]
    /\ status_cache = [b \in BankIds |-> EmptyStatusCache]
    /\ accounts = GenesisAccounts
    /\ held = {}
    /\ \E slots_per_epoch \in 1 .. MaxSlotsPerEpoch :
       \E stakers_slot_offset \in 0 .. MaxStakersOffset :
       \E warmup \in BOOLEAN :
          thr = Asked(EpochSchedule_new(slots_per_epoch, stakers_slot_offset, warmup), 0)
    /\ last = NoOp
    /\ ledger = [commits |-> [b \in BankIds |-> [s \in Signatures |-> 0]],
                 ancestry |-> [b \in BankIds |-> {}],
                 rejected |-> {},
                 blocked |-> {},
                 released |-> {},
                 cleared |-> {}]
    /\ ops = 0

\* the queries for the next slot
AskNextSlot ==
    /\ thr.slot < MaxEpochSlot
    /\ thr' = Asked(thr.schedule, thr.slot + 1)
    /\ UNCHANGED <<bank, blockhash_queue, status_cache, accounts, held, last, ledger, ops>>

NextEpoch == AskNextSlot

SpecEpoch == InitEpoch /\ [][NextEpoch]_vars

----------------------------------------------------------------------------
(* Epoch stake snapshots, as in test_bank_epoch_vote_accounts: a genesis   *)
(* block with its own schedule, children made at any slot, and the vote    *)
(* account of the leader changing in between.                              *)

\* operations performed in one behaviour
MaxStakeOps == 3
\* slots_per_epoch and stakers_slot_offset of the genesis blocks
MaxStakeSlotsPerEpoch == 3
MaxStakeOffset == 5

StakeSchedules ==
    { EpochSchedule_new(slots_per_epoch, stakers_slot_offset, warmup) :
        slots_per_epoch \in 1 .. MaxStakeSlotsPerEpoch,
        stakers_slot_offset \in 0 .. MaxStakeOffset,
        warmup \in BOOLEAN }

InitStakes ==
    /\ \E sch \in StakeSchedules :
          bank = [b \in BankIds |->
                    IF b = 0
                    THEN GenesisBankWith(sch, vote_accounts(GenesisAccounts, 0))
                    ELSE DeadBank]
    /\ blockhash_queue = [b \in BankIds |-> genesis_hash(GenesisHash)]
    /\ status_cache = [b \in BankIds |-> EmptyStatusCache]
    /\ accounts = GenesisAccounts
    /\ held = {}
    /\ thr = << >>
    /\ last = NoOp
    /\ ledger = [commits |-> [b \in BankIds |-> [s \in Signatures |-> 0]],
                 ancestry |-> [b \in BankIds |-> {}],
                 rejected |-> {},
                 blocked |-> {},
                 released |-> {},
                 cleared |-> {}]
    /\ ops = 0

NextStakes ==
    \/ ops < MaxStakeOps
          /\ \E p \in BankIds, slot \in Slots : NewFromParent(p, "leader", slot)
    \/ ops < MaxStakeOps /\ \E b \in BankIds : Deposit(b, "vote", 1)

SpecStakes == InitStakes /\ [][NextStakes]_vars

----------------------------------------------------------------------------
(* What the callers get back: batches and single transactions submitted on *)
(* the genesis bank, some while another caller holds account locks.        *)

\* operations performed in one behaviour
MaxReturnOps == 3

\* transfers that succeed, end with an instruction error, name an unknown
\* payer, an unknown blockhash or a fee the payer cannot pay, and one that
\* is not signed
ReturnTxs ==
    { Signed_tx(sig) : sig \in {1, 2, 3, 4, 8} }
    \cup { Unsigned_tx(MoveMessage("mint", "alice", 1, GenesisHash, 1)) }

NextReturn ==
    \/ ops < MaxReturnOps /\ \E txs \in SeqsUpTo(ReturnTxs, MaxBatch) : ProcessTransactions(0, txs)
    \/ ops < MaxReturnOps /\ \E tx \in ReturnTxs : ProcessTransaction(0, tx)
    \/ ops < MaxReturnOps /\ \E tx \in ReturnTxs : LockAccounts(0, << tx >>)

SpecReturn == Init /\ [][NextReturn]_vars

----------------------------------------------------------------------------
(* Forks of one parent: children are made of any bank and each processes   *)
(* transfers of its own.                                                   *)

\* operations performed in one behaviour
MaxSiblingOps == 5

\* a transfer that succeeds, one that ends with an instruction error after
\* its fee was taken, one by an account the first transfer funds
SiblingTxs == { Signed_tx(sig) : sig \in {1, 2, 3} }

NextSiblings ==
    \/ ops < MaxSiblingOps
          /\ \E p \in BankIds, slot \in 1 .. 2 : NewFromParent(p, "leader", slot)
    \/ ops < MaxSiblingOps
          /\ \E b \in BankIds, tx \in SiblingTxs : ProcessTransactions(b, << tx >>)

SpecSiblings == Init /\ [][NextSiblings]_vars

----------------------------------------------------------------------------
(* Batches of transfers with fees, as in test_bank_tx_fee, on the genesis  *)
(* bank and on a child with a collector of its own.                        *)

\* operations performed in one behaviour
MaxFeeOps == 2
\* transactions in one batch
MaxFeeBatch == 3

\* with a fee: a transfer that succeeds, two that end with an instruction
\* error (one paid by the bootstrap leader), one whose payer cannot pay the
\* fee; without: one that names an unknown blockhash, one whose payer has no
\* account
FeeTxs == { Signed_tx(sig) : sig \in {6, 12, 2, 8, 4, 3} }

NextFees ==
    \/ ops < MaxFeeOps /\ \E c \in Collectors : NewFromParent(0, c, 1)
    \/ ops < MaxFeeOps
          /\ \E b \in BankIds, txs \in SeqsUpTo(FeeTxs, MaxFeeBatch) : ProcessTransactions(b, txs)

SpecFees == Init /\ [][NextFees]_vars

----------------------------------------------------------------------------
(* squash() running next to callers of the same fork graph: one thread     *)
(* squashes a bank while another asks for a signature and a third submits  *)
(* a batch.  The fork graph is made, and transactions are committed on it, *)
(* before the threads start.                                               *)

\* operations made before the threads start
MaxSquashOps == 2
\* banks of the behaviour: the genesis bank, a child, a grandchild
MaxSquashBanks == 3

SquashTxs == { Signed_tx(sig) : sig \in {1, 2} }

InitSquash ==
    /\ bank = [b \in BankIds |-> IF b = 0 THEN GenesisBank ELSE DeadBank]
    /\ blockhash_queue = [b \in BankIds |-> genesis_hash(GenesisHash)]
    /\ status_cache = [b \in BankIds |-> EmptyStatusCache]
    /\ accounts = GenesisAccounts
    /\ held = {}
    /\ \E w \in BOOLEAN :
          thr = [writers_first |-> w, call |-> [t \in CallThreads |-> CallIdle]]
    /\ last = NoOp
    /\ ledger = [commits |-> [b \in BankIds |-> [s \in Signatures |-> 0]],
                 ancestry |-> [b \in BankIds |-> {}],
                 rejected |-> {},
                 blocked |-> {},
                 released |-> {},
                 cleared |-> {}]
    /\ ops = 0

\* a step of thread t inside freeze or squash
SquashStep(t) ==
    \/ CallFreezeHasAccounts(t)
    \/ CallFreezeHash(t)
    \/ CallSquashDropParent(t)
    \/ CallSquashAccounts(t)
    \/ CallSquashCaches(t)

\* a bank processes transactions until it has a child
NextSquash ==
    \/ NoCallYet /\ ops < MaxSquashOps
          /\ \E b \in BankIds, tx \in SquashTxs :
                /\ \A d \in Live : b \notin ledger.ancestry[d]
                /\ ProcessTransactions(b, << tx >>)
    \/ NoCallYet /\ ops < MaxSquashOps /\ Cardinality(Live) < MaxSquashBanks
          /\ \E p \in BankIds : NewFromParent(p, "leader", bank[p].slot + 1)
    \/ \E b \in BankIds : CallBegin(3, "squash", b, << >>)
    \/ \E b \in BankIds, tx \in SquashTxs :
          CallBegin(1, "get_signature_status", b, << tx >>)
    \/ \E b \in BankIds, tx \in SquashTxs :
          CallBegin(1, "has_signature", b, << tx >>)
    \/ \E b \in BankIds, tx \in SquashTxs :
          /\ \A d \in Live : b \notin ledger.ancestry[d]
          /\ CallBegin(2, "process_transactions", b, << tx >>)
    \/ \E t \in CallThreads : BatchStep(t)
    \/ \E t \in CallThreads : CallQueryReturn(t)
    \/ \E t \in CallThreads : SquashStep(t)

SpecSquash == InitSquash /\ [][NextSquash]_vars

----------------------------------------------------------------------------
(* Transactions without signatures, as in test_zero_signatures, next to    *)
(* the signed transaction of the same message and a caller that holds      *)
(* account locks.                                                          *)

\* operations performed in one behaviour
MaxUnsignedOps == 4

\* not signed: a transfer without fee, one with a fee, one with a fee that
\* names an unknown blockhash, one without fee whose payer has no account
UnsignedTxs ==
    { Unsigned_tx(MoveMessage("mint", "alice", 1, GenesisHash, 0)),
      Unsigned_tx(MoveMessage("mint", "alice", 1, GenesisHash, 2)),
      Unsigned_tx(MoveMessage("mint", "alice", 1, "h1", 1)),
      Unsigned_tx(MoveMessage("alice", "bob", 1, GenesisHash, 0)) }

NextUnsigned ==
    \/ ops < MaxUnsignedOps /\ \E tx \in UnsignedTxs \cup {Signed_tx(1)} : ProcessTransaction(0, tx)
    \/ ops < MaxUnsignedOps /\ \E tx \in UnsignedTxs : LockAccounts(0, << tx >>)
    \/ ops < MaxUnsignedOps /\ \E h \in held : UnlockAccounts(h)

SpecUnsigned == Init /\ [][NextUnsigned]_vars

----------------------------------------------------------------------------
(* The calls of the threads under a scheduler: one thread squashes or      *)
(* freezes a bank, one asks for a signature status, and one registers a    *)
(* tick or submits a batch.  The fork graph is made before the threads     *)
(* start.                                                                  *)

\* banks of the behaviour: the genesis bank and its descendants
MaxCallBanks == 2
\* new_from_parent and register_tick calls made before the threads start
MaxCallSetup == 1

CallTxs == { Signed_tx(sig) : sig \in {2} }

InitCalls ==
    /\ bank = [b \in BankIds |-> IF b = 0 THEN GenesisBank ELSE DeadBank]
    /\ blockhash_queue = [b \in BankIds |-> genesis_hash(GenesisHash)]
    /\ status_cache = [b \in BankIds |-> EmptyStatusCache]
    /\ accounts = GenesisAccounts
    /\ held = {}
    /\ \E w \in BOOLEAN :
          thr = [writers_first |-> w, call |-> [t \in CallThreads |-> CallIdle]]
    /\ last = NoOp
    /\ ledger = [commits |-> [b \in BankIds |-> [s \in Signatures |-> 0]],
                 ancestry |-> [b \in BankIds |-> {}],
                 rejected |-> {},
                 blocked |-> {},
                 released |-> {},
                 cleared |-> {}]
    /\ ops = 0

NextCalls ==
    \/ NoCallYet /\ ops < MaxCallSetup /\ Cardinality(Live) < MaxCallBanks
          /\ \E p \in BankIds : NewFromParent(p, "leader", bank[p].slot + 1)
    \/ NoCallYet /\ ops < MaxCallSetup /\ \E b \in BankIds : RegisterTick(b, "h1")
    \/ \E b \in BankIds, tx \in CallTxs :
          CallBegin(1, "get_signature_status", b, << tx >>)
    \/ \E b \in BankIds, tx \in CallTxs :
          CallBegin(2, "process_transactions", b, << tx >>)
    \/ \E b \in BankIds : CallBeginTick(2, b, "h1")
    \/ \E b \in BankIds : CallBegin(3, "freeze", b, << >>)
    \/ \E b \in BankIds : CallBegin(3, "squash", b, << >>)
    \/ \E t \in CallThreads : CallStep(t)

SpecCalls == InitCalls /\ [][NextCalls]_vars

\* the scheduler runs every thread that can take a step
SpecCallsFair == SpecCalls /\ \A t \in CallThreads : WF_vars(CallStep(t))

----------------------------------------------------------------------------
(* Properties *)

\* the banks on the ancestry of b: b and every bank it descends from
Ancestry(b) == {b} \cup ledger.ancestry[b]

\* number of times signature s was committed on the ancestry of b
CommittedOn(b, s) == SumOver([a \in BankIds |-> ledger.commits[a][s]], Ancestry(b))

\* C1: at-most-once per fork.  After any sequence of process_transactions,
\* register_tick, new_from_parent and squash (and no clear_signatures), no
\* signature has been committed twice on the ancestry of a bank.
C1_AtMostOncePerFork ==
    ledger.cleared = {}
    => \A b \in Live : \A s \in Signatures : CommittedOn(b, s) <= 1

\* C1, second sentence: a signed transaction that holds its locks, passes
\* the age check and whose signature is recorded on the bank or an ancestor
\* is rejected with DuplicateSignature and commits nothing
C1_DuplicateRejected ==
    [][\A i \in 1 .. Len(last'.txs) :
          ( /\ last'.op \in {"process_transactions", "load_execute_and_commit_transactions"}
            /\ Signed(last'.txs[i])
            /\ IsOk(last'.lock_results[i])
            /\ check_hash_age(blockhash_queue[last'.bank], last'.txs[i].recent_blockhash,
                              MAX_RECENT_BLOCKHASHES)
            /\ has_signature(last'.bank, last'.txs[i].signatures[1]) )
          => /\ last'.results[i] = Err("DuplicateSignature")
             /\ last'.executed[i] = Err("DuplicateSignature")]_vars

\* the operations that run a batch through load, execute and commit
BatchOps == {"process_transactions", "load_execute_and_commit_transactions"}

\* the positions of signature s in a batch
Occurrences(txs, s) ==
    {i \in 1 .. Len(txs) : Signed(txs[i]) /\ txs[i].signatures[1] = s}

\* what the queries of bank p return
Queries(p) ==
    [account |-> [k \in Keys |-> get_account(p, k)],
     balance |-> [k \in Keys |-> get_balance(p, k)],
     transaction_count |-> transaction_count(p),
     status |-> [s \in Signatures |-> get_signature_status(p, s)]]

\* C5: parent isolation.  A process_transactions, deposit or withdraw on a
\* bank that has a parent changes nothing of what the queries of its
\* ancestors return; a signature the step commits with Ok on the child has
\* status Ok on the child and keeps status None on an ancestor that did not
\* know it.
C5_ParentIsolation ==
    [][\A c \in BankIds :
         (/\ last'.op \in BatchOps \cup {"deposit", "withdraw"}
          /\ last'.bank = c
          /\ c \in Live
          /\ bank[c].parent # NoBank)
         => \A p \in Range(parents(c)) :
              /\ Queries(p)' = Queries(p)
              /\ \A s \in Signatures :
                   ( /\ Occurrences(last'.txs, s) # {}
                     /\ \A i \in Occurrences(last'.txs, s) : IsOk(last'.executed[i])
                     /\ get_signature_status(p, s) = None )
                   => /\ get_signature_status(c, s)' = Ok
                      /\ get_signature_status(p, s)' = None]_vars

\* a child bank has just committed a transaction, changed a balance it
\* shares with its parent, and the parent does not know the signature
C5_Witness ==
    /\ last.op = "process_transactions"
    /\ bank[last.bank].parent # NoBank
    /\ \E i \in 1 .. Len(last.txs) :
         /\ IsOk(last.executed[i])
         /\ get_signature_status(last.bank, last.txs[i].signatures[1]) = Ok
         /\ get_signature_status(bank[last.bank].parent, last.txs[i].signatures[1]) = None
         /\ get_balance(last.bank, "mint") # get_balance(bank[last.bank].parent, "mint")

\* C6: blockhash retry.  A batch in which every occurrence of a signature
\* failed with BlockhashNotFound, DuplicateSignature or AccountNotFound
\* leaves has_signature and get_signature_status of that signature as they
\* were.
C6_EarlyFailureNotRecorded ==
    [][\A b \in BankIds : \A s \in Signatures :
         ( /\ last'.op \in BatchOps
           /\ last'.bank = b
           /\ Occurrences(last'.txs, s) # {}
           /\ \A i \in Occurrences(last'.txs, s) :
                last'.results[i].kind \in
                    {"BlockhashNotFound", "DuplicateSignature", "AccountNotFound"} )
         => /\ has_signature(b, s)' = has_signature(b, s)
            /\ get_signature_status(b, s)' = get_signature_status(b, s)]_vars

\* a transaction that was rejected with BlockhashNotFound on this bank has
\* now been committed on it with Ok
C6_Witness ==
    /\ last.op = "process_transactions"
    /\ \E i \in 1 .. Len(last.txs) :
         /\ Signed(last.txs[i])
         /\ IsOk(last.executed[i])
         /\ <<last.bank, last.txs[i].signatures[1], "BlockhashNotFound">> \in ledger.rejected
         /\ get_signature_status(last.bank, last.txs[i].signatures[1]) = Ok

\* C7 as claimed: a rejection with AccountInUse leaves the signature out of
\* the status cache, so that the unchanged transaction can be submitted again
C7_InUseRetryable ==
    [][\A b \in BankIds : \A s \in Signatures :
         ( /\ last'.op \in BatchOps
           /\ last'.bank = b
           /\ \E i \in Occurrences(last'.txs, s) : last'.results[i] = Err("AccountInUse") )
         => has_signature(b, s)' = has_signature(b, s)]_vars

\* C7 as amended: a signed transaction rejected with AccountInUse is
\* recorded with that error, and the unchanged transaction, submitted again
\* on the same bank while its blockhash is within the age limit and the
\* record is in the status cache (clear_signatures wipes it), is rejected
\* with DuplicateSignature once it holds its locks.
C7_InUseRecorded ==
    [][\A b \in BankIds : \A s \in Signatures :
         (last'.op \in BatchOps /\ last'.bank = b)
         => \A i \in Occurrences(last'.txs, s) :
              /\ last'.results[i] = Err("AccountInUse")
                 => get_signature_status(b, s)' = Err("AccountInUse")
              /\ ( /\ get_signature_status(b, s) = Err("AccountInUse")
                   /\ IsOk(last'.lock_results[i])
                   /\ check_hash_age(blockhash_queue[b], last'.txs[i].recent_blockhash,
                                     MAX_RECENT_BLOCKHASHES) )
                 => last'.results[i] = Err("DuplicateSignature")]_vars

\* a transaction rejected with AccountInUse was submitted again on its own,
\* got its locks and was rejected with DuplicateSignature
C7_Witness ==
    /\ last.op = "process_transactions"
    /\ Len(last.txs) = 1
    /\ Signed(last.txs[1])
    /\ <<last.bank, last.txs[1].signatures[1], "AccountInUse">> \in ledger.rejected
    /\ IsOk(last.lock_results[1])
    /\ last.results[1] = Err("DuplicateSignature")
    /\ ledger.commits[last.bank][last.txs[1].signatures[1]] = 0

\* the account locks the callers of lock_accounts hold
HeldLocks ==
    UNION { BatchLocks(accounts_id(h.bank), h.txs, h.results) : h \in held }

\* C2: lock conservation.  Whatever process_transactions returned for its
\* transactions, the locks held are exactly those of the callers of
\* lock_accounts that have not unlocked yet: the batch left none of its own
\* and released none of theirs.
C2_LockConservation == accounts.locks = HeldLocks

\* process_transactions has returned, some of its transactions having held
\* locks and some having got AccountInUse, while another caller's locks
\* are still held
C2_Witness ==
    /\ last.op = "process_transactions"
    /\ \E i, j \in 1 .. Len(last.txs) :
         /\ IsOk(last.lock_results[i])
         /\ last.results[j] = Err("AccountInUse")
    /\ HeldLocks # {}
    /\ accounts.locks = HeldLocks

\* C9: locks taken with lock_accounts stay held until unlock_accounts.
\* Until the holder unlocks, its locks stay in the lock table whatever
\* runs in between, every transaction of a process_transactions batch on
\* that bank that touches a held key gets AccountInUse, and the holder's
\* unlock_accounts releases its locks.
C9_HeldUntilUnlock ==
    [][/\ last'.op # "unlock_accounts" => HeldLocks \subseteq accounts'.locks
       /\ last'.op = "process_transactions"
          => \A i \in 1 .. Len(last'.txs) :
               TxLocks(accounts_id(last'.bank), last'.txs[i]) \cap HeldLocks # {}
               => last'.results[i] = Err("AccountInUse")
       /\ last'.op = "unlock_accounts"
          => BatchLocks(accounts_id(last'.bank), last'.txs, last'.results)
               \cap accounts'.locks = {}]_vars

\* a transaction was rejected with AccountInUse while a caller held a key
\* of it, the caller has unlocked, and a transaction on a released key has
\* now been committed
C9_Witness ==
    /\ last.op = "process_transactions"
    /\ held = {}
    /\ Len(last.txs) = 1
    /\ IsOk(last.executed[1])
    /\ TxLocks(accounts_id(last.bank), last.txs[1]) \cap ledger.released # {}
    /\ \E s \in Signatures :
         /\ <<last.bank, s>> \in ledger.blocked
         /\ TxLocks(accounts_id(last.bank), Signed_tx(s)) \cap ledger.released # {}

\* the transactions of a batch share an account key
SharesKey(txs, i, j) == Range(txs[i].account_keys) \cap Range(txs[j].account_keys) # {}

\* the keys of the transactions of a batch that did not get AccountInUse
KeysOfLocked(txs, results) ==
    UNION { Range(txs[i].account_keys) :
              i \in {j \in 1 .. Len(txs) : results[j] # Err("AccountInUse")} }

\* C8 as claimed: in a batch on a bank with no locks held, of any two
\* transactions that share a key the lower-indexed one acquires its locks
\* and the higher-indexed one returns AccountInUse and, when signed, has
\* that status; there is one result per transaction.
C8_LowerIndexAcquires ==
    (last.op = "process_transactions" /\ held = {})
    => /\ Len(last.results) = Len(last.txs)
       /\ \A i, j \in 1 .. Len(last.txs) :
            (i < j /\ SharesKey(last.txs, i, j))
            => /\ IsOk(last.lock_results[i])
               /\ last.results[j] = Err("AccountInUse")
               /\ Signed(last.txs[j])
                  => get_signature_status(last.bank, last.txs[j].signatures[1])
                       = Err("AccountInUse")

\* C8 as amended: in a batch on a bank with no locks held there is one
\* result per transaction, in index order; a transaction returns
\* AccountInUse exactly when it shares a key with a lower-indexed
\* transaction that acquired its locks (one that did not itself return
\* AccountInUse); it then has, when signed, the status Err(AccountInUse),
\* and a key touched only by such transactions keeps its balance.
C8_IntraBatchConflict ==
    [][(last'.op = "process_transactions" /\ held = {})
       => /\ Len(last'.results) = Len(last'.txs)
          /\ \A j \in 1 .. Len(last'.txs) :
               last'.results[j] = Err("AccountInUse")
               <=> \E i \in 1 .. (j - 1) :
                     /\ last'.results[i] # Err("AccountInUse")
                     /\ SharesKey(last'.txs, i, j)
          /\ \A b \in BankIds : \A s \in Signatures :
               ( /\ last'.bank = b
                 /\ \E j \in Occurrences(last'.txs, s) : last'.results[j] = Err("AccountInUse") )
               => get_signature_status(b, s)' = Err("AccountInUse")
          /\ \A b \in BankIds : \A k \in Keys :
               ( /\ last'.bank = b
                 /\ k # bank[b].collector_id
                 /\ k \notin KeysOfLocked(last'.txs, last'.results) )
               => get_balance(b, k)' = get_balance(b, k)]_vars

\* a batch of three: the first transaction holds its locks, the second
\* shares a key with it and is rejected, the third shares a key with the
\* second only and is processed
C8_Witness ==
    /\ last.op = "process_transactions"
    /\ held = {}
    /\ Len(last.txs) = 3
    /\ SharesKey(last.txs, 1, 2) /\ SharesKey(last.txs, 2, 3) /\ ~SharesKey(last.txs, 1, 3)
    /\ IsOk(last.executed[1])
    /\ last.results[2] = Err("AccountInUse")
    /\ get_signature_status(last.bank, last.txs[2].signatures[1]) = Err("AccountInUse")
    /\ last.results[3] # Err("AccountInUse")

\* the positions of a batch whose execution ended with an InstructionError
Failed(executed) == {i \in 1 .. Len(executed) : executed[i].kind = "InstructionError"}

\* the positions of a batch that ran Ok
Succeeded(executed) == {i \in 1 .. Len(executed) : IsOk(executed[i])}

\* the fees of the transactions at positions I
FeesOf(txs, I) == SumOver([i \in 1 .. Len(txs) |-> txs[i].fee], I)

\* C3 as claimed, for a batch of one transaction: when its execution ends
\* with InstructionError the collector has gained exactly its fee, the fee
\* payer has lost exactly its fee and no other account has changed.
C3_FeeInvariance ==
    [][\A b \in BankIds : \A k \in Keys :
         ( /\ last'.op \in BatchOps
           /\ last'.bank = b
           /\ Len(last'.txs) = 1
           /\ last'.executed[1].kind = "InstructionError" )
         => /\ k = bank[b].collector_id
               => get_balance(b, k)' = get_balance(b, k) + last'.txs[1].fee
            /\ k = last'.txs[1].account_keys[1]
               => get_balance(b, k)' = get_balance(b, k) - last'.txs[1].fee
            /\ k \notin {bank[b].collector_id, last'.txs[1].account_keys[1]}
               => get_balance(b, k)' = get_balance(b, k)]_vars

\* C3 as amended: every account that is no key of a transaction that ran
\* Ok changes by the fees the batch collected, if it is the collector,
\* less the fees of the transactions it paid for that ended with
\* InstructionError; a fee payer that is the collector itself gets its fee
\* back, and no other account changes.
C3_FeeAccounting ==
    [][\A b \in BankIds : \A k \in Keys :
         ( /\ last'.op \in BatchOps
           /\ last'.bank = b
           /\ \A i \in Succeeded(last'.executed) : k \notin Range(last'.txs[i].account_keys) )
         => get_balance(b, k)'
              = get_balance(b, k)
                - FeesOf(last'.txs, {i \in Failed(last'.executed) :
                                       last'.txs[i].account_keys[1] = k})
                + (IF k = bank[b].collector_id
                   THEN FeesOf(last'.txs, Failed(last'.executed) \cup Succeeded(last'.executed))
                   ELSE 0)]_vars

\* a batch in which two transactions ended with InstructionError and paid
\* a fee, one of them paid by the collector itself
C3_Witness ==
    /\ last.op = "process_transactions"
    /\ \E i, j \in Failed(last.executed) :
         /\ last.txs[i].fee > 0 /\ last.txs[j].fee > 0
         /\ last.txs[i].account_keys[1] = bank[last.bank].collector_id
         /\ last.txs[j].account_keys[1] # bank[last.bank].collector_id
    /\ get_balance(last.bank, bank[last.bank].collector_id) = 2
    /\ get_balance(last.bank, "mint") = GenesisMintLamports - 1

\* lamports the first j instructions of tx move out of its first account
Spent(tx, j) == SumOver([l \in 1 .. Len(tx.instructions) |-> tx.instructions[l].lamports], 1 .. j)

\* lamports the instructions of tx move to key k
Received(tx, k) ==
    SumOver([l \in 1 .. Len(tx.instructions) |-> tx.instructions[l].lamports],
            {l \in 1 .. Len(tx.instructions) :
               tx.account_keys[tx.instructions[l].accounts[2]] = k})

\* the instructions of tx that find less than they move when the first
\* account holds avail lamports
Overdrawn(tx, avail) == {j \in 1 .. Len(tx.instructions) : Spent(tx, j) > avail}

Least(S) == CHOOSE x \in S : \A y \in S : x <= y

\* C4: atomic commit per transaction.  A transaction of several
\* instructions that reaches execution either runs all of them, and every
\* account shows all of its writes, or fails at its first instruction k
\* that cannot be paid: then its status is InstructionError(k, cause) and
\* no account shows a write of any of its instructions, only the fee moves
\* from the payer to the collector.
C4_AtomicCommit ==
    [][\A b \in BankIds : \A s \in Signatures :
         ( /\ last'.op \in BatchOps
           /\ last'.bank = b
           /\ last'.txs = << Signed_tx(s) >>
           /\ Len(Signed_tx(s).instructions) > 1
           /\ last'.executed[1].kind \in {"Ok", "InstructionError"} )
         => LET tx == Signed_tx(s)
                payer == tx.account_keys[1]
                avail == get_balance(b, payer) - tx.fee
                fee(k) == (IF k = bank[b].collector_id THEN tx.fee ELSE 0)
                          - (IF k = payer THEN tx.fee ELSE 0)
            IN IF Overdrawn(tx, avail) = {}
               THEN /\ last'.executed[1] = Ok
                    /\ get_signature_status(b, s)' = Ok
                    /\ \A k \in Keys :
                         get_balance(b, k)'
                           = get_balance(b, k) + fee(k) + Received(tx, k)
                             - (IF k = payer THEN Spent(tx, Len(tx.instructions)) ELSE 0)
               ELSE /\ last'.executed[1]
                         = InstructionError(Least(Overdrawn(tx, avail)) - 1,
                                            "ResultWithNegativeLamports")
                    /\ get_signature_status(b, s)' = last'.executed[1]
                    /\ \A k \in Keys : get_balance(b, k)' = get_balance(b, k) + fee(k)]_vars

\* a transaction of two instructions whose second instruction failed after
\* its first had moved lamports: the status names instruction 1 and neither
\* destination has received anything
C4_Witness ==
    /\ last.op = "process_transactions"
    /\ Len(last.txs) = 1
    /\ Len(last.txs[1].instructions) = 2
    /\ last.txs[1].instructions[1].lamports > 0
    /\ last.executed[1] = InstructionError(1, "ResultWithNegativeLamports")
    /\ get_signature_status(last.bank, last.txs[1].signatures[1]) = last.executed[1]
    /\ get_balance(last.bank, "alice") = 0
    /\ get_balance(last.bank, "bob") = 0
    /\ get_balance(last.bank, "mint") > 0

\* the fees the batches of the threads charged: those of the transactions
\* that ran, with or without an instruction error
FeesCharged ==
    SumOver([t \in Threads |-> thr.call[t].fees], Threads)

\* the transactions of the threads that ran Ok
Successes ==
    SumOver([t \in Threads |->
                Cardinality({i \in 1 .. Len(thr.call[t].executed) :
                               IsOk(thr.call[t].executed[i])})],
            Threads)

\* C10: two process_transactions calls that ran concurrently on the same
\* bank over disjoint account keys leave the state of running one after the
\* other: the collector has gained the fees of both batches and
\* transaction_count has grown by the successes of both.
C10_ConcurrentBatches ==
    (\A t \in Threads : thr.call[t].pc = "returned")
    => /\ get_balance(0, bank[0].collector_id) = 1 + FeesCharged
       /\ transaction_count(0) = Successes
       /\ accounts.locks = {}

\* the calls of register_tick that saw tick height n
SeenBy(n) ==
    { <<t, i>> \in Threads \X (1 .. MaxTickCalls) :
        i <= Len(thr[t].seen) /\ thr[t].seen[i] = n }

\* the calls of register_tick that registered a blockhash for tick height n
RegisteredBy(n) ==
    { <<t, i>> \in Threads \X (1 .. MaxTickCalls) :
        i <= Len(thr[t].registered) /\ thr[t].registered[i] = n }

\* C11: last-tick-of-slot detection is race-free.  Once the concurrent
\* register_tick calls have returned, every tick height was seen by exactly
\* one call and exactly one blockhash was registered for each slot's last
\* tick.
C11_TickSeenOnce ==
    (\A t \in Threads : thr[t].pc = "idle")
    => \A n \in 1 .. bank[0].tick_height :
         /\ Cardinality(SeenBy(n)) = 1
         /\ Cardinality(RegisteredBy(n))
              = (IF n % TicksPerSlot = TicksPerSlot - 1 THEN 1 ELSE 0)

\* the locks thread t holds: those of its transactions that got their
\* locks, from lock_accounts until unlock_accounts
InFlightLocks(t) ==
    IF thr.call[t].pc \in {"start", "returned"} THEN {}
    ELSE BatchLocks(accounts_id(0), thr.call[t].txs, thr.call[t].lock_results)

\* the transactions of thread t that got their locks
Holding(t) ==
    SelectSeq(thr.call[t].txs, LAMBDA tx :
        \E i \in 1 .. Len(thr.call[t].txs) :
           thr.call[t].txs[i] = tx /\ IsOk(thr.call[t].lock_results[i]))

\* the balance of key after the genesis bank, alone, has processed txs on
\* the accounts store A
BalanceAlone(account) == IF account = NoAccount THEN 0 ELSE account
Alone(A, txs, key) ==
    BalanceAlone(load_slow(process_transactions(0, A, EmptyStatusCache, txs).A,
                           accounts_id(0), key))

\* C12: two concurrent batches with overlapping keys serialize.  No key is
\* locked by in-flight batches of two threads; a transaction that found a
\* key locked returns AccountInUse; and the transactions that held their
\* locks commit as if their thread ran alone on the accounts it found: when
\* the thread is about to unlock, their keys hold the balances of the run
\* alone, and once both threads have returned the collector has gained the
\* fees of both.
C12_OverlappingBatchesSerialize ==
    /\ \A t1, t2 \in Threads : t1 # t2 => InFlightLocks(t1) \cap InFlightLocks(t2) = {}
    /\ \A t \in Threads :
         thr.call[t].pc \in {"unlock", "returned"}
         => \A i \in 1 .. Len(thr.call[t].txs) :
              thr.call[t].lock_results[i] = Err("AccountInUse")
              => thr.call[t].results[i] = Err("AccountInUse")
    /\ \A t \in Threads :
         thr.call[t].pc = "unlock"
         => \A lk \in InFlightLocks(t) :
              get_balance(0, lk[2]) = Alone(thr.call[t].found, Holding(t), lk[2])
    /\ (\A t \in Threads : thr.call[t].pc = "returned")
       => get_balance(0, bank[0].collector_id) = 1 + FeesCharged

\* C13: freeze idempotence.  freeze, also when called by new_from_parent on
\* the parent or by squash, stores hash_internal_state() into hash when
\* hash is still unset, and a hash that is set is changed by no operation.
C13_FreezeIdempotent ==
    [][\A b \in BankIds :
         /\ (bank[b].live /\ is_frozen(b)) => bank'[b].hash = bank[b].hash
         /\ ( /\ bank[b].live /\ ~is_frozen(b)
              /\ \/ last'.op \in {"freeze", "squash"} /\ last'.bank = b
                 \/ last'.op = "new_from_parent" /\ bank'[last'.bank].parent = b )
            => /\ bank'[b].hash = hash_internal_state(b, accounts)
               /\ bank'[b].hash # DefaultHash]_vars

\* the genesis bank has been frozen after every lamport handed out by
\* process_genesis_block had left its fork: the hash stored is set, it
\* covers the accounts of the native programs
C13_Witness ==
    /\ last.op = "freeze"
    /\ ledger.ancestry[last.bank] = {}
    /\ Drained(accounts, accounts_id(last.bank))
    /\ has_accounts(accounts, accounts_id(last.bank))
    /\ is_frozen(last.bank)
    /\ bank[last.bank].hash = hash_internal_state(last.bank, accounts)

\* the state a bank owns: its fork of the accounts store, its transaction
\* count, tick height, blockhash queue and status cache
OwnState(b) ==
    [accounts |-> accounts.acct[accounts_id(b)],
     transaction_count |-> transaction_count(b),
     tick_height |-> bank[b].tick_height,
     blockhash_queue |-> blockhash_queue[b],
     status_cache |-> status_cache[b]]

\* C14: a frozen bank is effectively read-only.  register_tick and
\* process_transactions on a bank that has been frozen (by freeze, by
\* new_from_parent or by squash) change nothing of the state it owns.
C14_FrozenReadOnly ==
    [][\A b \in BankIds :
         ( /\ bank[b].live /\ is_frozen(b)
           /\ last'.op \in {"register_tick", "process_transactions"}
           /\ last'.bank = b )
         => OwnState(b)' = OwnState(b)]_vars

\* C15: squash preserves every query result of the squashed bank and is
\* idempotent.  Every squash, the first one and any later one, leaves
\* get_account, get_balance, transaction_count and get_signature_status of
\* the bank as they were, for every key and every signature.
C15_SquashPreservesQueries ==
    [][\A b \in BankIds :
         (last'.op = "squash" /\ last'.bank = b) => Queries(b)' = Queries(b)]_vars

\* a bank that had a parent has been squashed; it answers for a signature
\* committed on a former ancestor and for a balance written there
C15_Witness ==
    /\ last.op = "squash"
    /\ bank[last.bank].parent = NoBank
    /\ \E a \in ledger.ancestry[last.bank] :
         /\ \E s \in Signatures :
              /\ ledger.commits[a][s] > 0
              /\ ledger.commits[last.bank][s] = 0
              /\ get_signature_status(last.bank, s) = Ok
         /\ \E k \in Keys :
              /\ get_balance(last.bank, k) > 0
              /\ get_balance(last.bank, k) = get_balance(a, k)
              /\ get_balance(a, k) # GenesisAccounts.acct[0][k]

\* a root: a frozen bank without parent
IsRoot(b) == bank[b].live /\ is_frozen(b) /\ bank[b].parent = NoBank /\ parents(b) = << >>

\* C16: after squash the bank is a root.  squash leaves the bank frozen,
\* with parent() None and parents() empty, and leaves get_balance and
\* transaction_count of its former parents as they were; a root stays a
\* root under every operation.
C16_SquashedIsRoot ==
    [][\A b \in BankIds :
         /\ (last'.op = "squash" /\ last'.bank = b)
            => /\ IsRoot(b)'
               /\ \A p \in Range(parents(b)) :
                    /\ \A k \in Keys : get_balance(p, k)' = get_balance(p, k)
                    /\ transaction_count(p)' = transaction_count(p)
         /\ IsRoot(b) => IsRoot(b)']_vars

\* a bank that had a parent was squashed and has then been operated on:
\* it is still a root, and its former parent holds lamports
C16_Witness ==
    /\ last.op \in {"process_transactions", "register_tick", "new_from_parent"}
    /\ \E b \in BankIds :
         /\ ledger.ancestry[b] # {}
         /\ IsRoot(b)
         /\ last.bank = b \/ bank[last.bank].parent = b
         /\ \E p \in ledger.ancestry[b] : get_balance(p, "mint") > 0

\* C17: hash_internal_state is parent_hash when the bank's fork has written
\* no account, so a child frozen or squashed without a write gets its
\* parent's hash(); when the fork has written accounts, the hash stored is
\* parent_hash extended by the fork's modified account set.
C17_HashOfUnwrittenFork ==
    [][\A b \in BankIds :
         ( /\ bank[b].live /\ ~is_frozen(b)
           /\ last'.op \in {"freeze", "squash"} /\ last'.bank = b )
         => IF has_accounts(accounts, accounts_id(b))
            THEN bank'[b].hash = extend_and_hash(bank[b].parent_hash,
                                                 accounts_delta(accounts, accounts_id(b)))
            ELSE /\ bank'[b].hash = bank[b].parent_hash
                 /\ bank[b].parent # NoBank
                    => bank'[b].hash = bank[bank[b].parent].hash]_vars

\* a child that has written nothing has been frozen or squashed and its
\* hash is the hash of the bank it was created from, which has written
C17_Witness ==
    /\ last.op \in {"freeze", "squash"}
    /\ ledger.ancestry[last.bank] # {}
    /\ ~has_accounts(accounts, accounts_id(last.bank)) \/ last.op = "squash"
    /\ \E p \in ledger.ancestry[last.bank] :
         /\ bank[last.bank].hash = bank[p].hash
         /\ bank[p].is_delta
         /\ bank[p].hash # DefaultHash

\* C18: two banks made from the same genesis block that have processed the
\* same sequence of batches have equal hash_internal_state after every
\* batch, and a child made from one of them by new_from_parent has that
\* hash_internal_state too.
C18_HashDeterministic ==
    /\ InStep => hash_internal_state(0, accounts) = hash_internal_state(1, accounts)
    /\ last.op = "new_from_parent"
         => /\ hash_internal_state(last.bank, accounts) = hash_internal_state(0, accounts)
            /\ hash_internal_state(last.bank, accounts) = hash_internal_state(1, accounts)

\* the signature has a failure recorded on bank d or on a bank of its
\* parent chain
FailureRecorded(d, s) ==
    \E b \in {d} \cup Range(parents(d)) : get_signature_status(b, s) \notin {None, Ok}

\* the errors update_transaction_statuses records
RecordedKinds ==
    {"AccountInUse", "AccountLoadedTwice", "InsufficientFundsForFee",
     "MissingSignatureForFee", "ProgramAccountNotFound", "InstructionError"}

\* C19 as claimed: a signed transaction whose signature has a failure
\* recorded on this bank or on an ancestor gets DuplicateSignature when it
\* is submitted again.
C19_ResubmissionDuplicate ==
    [][\A d \in BankIds : \A s \in Signatures :
         (last'.op \in BatchOps /\ last'.bank = d /\ FailureRecorded(d, s))
         => \A i \in Occurrences(last'.txs, s) :
              last'.results[i] = Err("DuplicateSignature")]_vars

\* C19 as amended: an error other than BlockhashNotFound, DuplicateSignature
\* and AccountNotFound is recorded for the first signature, and the same
\* transaction submitted again on the bank or on a descendant gets
\* DuplicateSignature once it holds its locks and its blockhash is within
\* the age limit, AccountInUse or BlockhashNotFound otherwise; it is not
\* executed and no balance changes.
C19_FailureNotRetryable ==
    [][\A d \in BankIds : \A s \in Signatures :
         (last'.op \in BatchOps /\ last'.bank = d)
         => \A i \in Occurrences(last'.txs, s) :
              /\ ( /\ last'.executed[i].kind \in RecordedKinds
                   /\ \A j \in Occurrences(last'.txs, s) :
                        j > i => last'.executed[j].kind
                                   \in {"BlockhashNotFound", "DuplicateSignature",
                                        "AccountNotFound"} )
                 => get_signature_status(d, s)' = last'.executed[i]
              /\ FailureRecorded(d, s)
                 => /\ last'.results[i] =
                         IF last'.lock_results[i] = Err("AccountInUse")
                         THEN Err("AccountInUse")
                         ELSE IF ~check_hash_age(blockhash_queue[d],
                                                 last'.txs[i].recent_blockhash,
                                                 MAX_RECENT_BLOCKHASHES)
                         THEN Err("BlockhashNotFound")
                         ELSE Err("DuplicateSignature")
                    /\ last'.executed[i] = last'.results[i]
                    /\ ledger'.commits[d][s] = ledger.commits[d][s]
                    /\ Len(last'.txs) = 1
                       => /\ \A k \in Keys : get_balance(d, k)' = get_balance(d, k)
                          /\ transaction_count(d)' = transaction_count(d)]_vars

\* a transaction that ended with InstructionError on a bank and paid its
\* fee there was submitted again on a child of that bank and got
\* DuplicateSignature
C19_Witness ==
    /\ last.op = "process_transactions"
    /\ Len(last.txs) = 1
    /\ bank[last.bank].parent # NoBank
    /\ last.results[1] = Err("DuplicateSignature")
    /\ get_signature_status(bank[last.bank].parent, last.txs[1].signatures[1]).kind
         = "InstructionError"
    /\ ledger.commits[bank[last.bank].parent][last.txs[1].signatures[1]] = 1
    /\ ledger.commits[last.bank][last.txs[1].signatures[1]] = 0

\* C20: process_transactions returns Ok for a transaction whose execution
\* ended with InstructionError, its fee is collected and
\* get_signature_status of its first signature holds the InstructionError
\* (for the last occurrence of the signature in the batch); every other
\* error of a transaction is returned as it is.  process_transaction
\* returns the recorded InstructionError for a signed transaction, Ok for
\* one that ran Ok, and any other error as it is.
C20_ReturnedResults ==
    [][\A b \in BankIds :
         /\ (last'.op = "process_transactions" /\ last'.bank = b)
            => /\ Len(last'.results) = Len(last'.txs)
               /\ \A i \in 1 .. Len(last'.txs) :
                    /\ last'.executed[i].kind = "InstructionError"
                       => /\ last'.results[i] = Ok
                          /\ ( /\ Signed(last'.txs[i])
                               /\ \A j \in Occurrences(last'.txs, last'.txs[i].signatures[1]) :
                                    j <= i )
                             => \A s \in Signatures : s = last'.txs[i].signatures[1]
                                  => get_signature_status(b, s)' = last'.executed[i]
                          /\ ( /\ Len(last'.txs) = 1
                               /\ last'.txs[i].account_keys[1] # bank[b].collector_id )
                             => get_balance(b, bank[b].collector_id)'
                                  = get_balance(b, bank[b].collector_id) + last'.txs[i].fee
                    /\ last'.executed[i].kind # "InstructionError"
                       => last'.results[i] = last'.executed[i]
         /\ (last'.op = "process_transaction" /\ last'.bank = b)
            => /\ last'.results[1] = last'.executed[1] \/ ~Signed(last'.txs[1])
               /\ ~Signed(last'.txs[1])
                  => last'.results[1] =
                        IF last'.executed[1].kind = "InstructionError" THEN Ok
                        ELSE last'.executed[1]
               /\ Signed(last'.txs[1])
                  => \A s \in Signatures :
                       ( /\ s = last'.txs[1].signatures[1]
                         /\ last'.executed[1].kind \in {"Ok", "InstructionError"} )
                       => last'.results[1] = get_signature_status(b, s)']_vars

\* process_transaction has returned the InstructionError of a signed
\* transaction whose fee went to the collector
C20_Witness ==
    /\ last.op = "process_transaction"
    /\ Signed(last.txs[1])
    /\ last.results[1].kind = "InstructionError"
    /\ last.txs[1].fee > 0
    /\ get_signature_status(last.bank, last.txs[1].signatures[1]) = last.results[1]
    /\ get_balance(last.bank, bank[last.bank].collector_id) > 1

\* C21: a batch raises transaction_count of its bank by the number of its
\* transactions whose execution returned Ok, transactions that ended with
\* InstructionError or failed a gate are not counted, and no step lowers
\* the transaction_count of a bank.
C21_TransactionCount ==
    [][\A b \in BankIds :
         /\ (last'.op \in BatchOps /\ last'.bank = b)
            => transaction_count(b)' =
                 transaction_count(b)
                   + Cardinality({i \in 1 .. Len(last'.txs) : IsOk(last'.executed[i])})
         /\ bank[b].live => transaction_count(b)' >= transaction_count(b)]_vars

\* a batch of a transaction that ran Ok and one that did not has raised the
\* count of a bank that had counted before by one
C21_Witness ==
    /\ last.op = "process_transactions"
    /\ Len(last.txs) = 2
    /\ \E i, j \in 1 .. 2 : /\ IsOk(last.executed[i])
                            /\ last.executed[j].kind = "InstructionError"
    /\ transaction_count(last.bank) = 2

\* the transactions of the batch that were executed, with or without an
\* instruction error
Ran(executed) ==
    {i \in 1 .. Len(executed) : executed[i].kind \in {"Ok", "InstructionError"}}

\* C22: a bank is votable iff is_delta is set and the tick height is
\* (slot + 1) * ticks_per_slot - 1; it is not votable before a transaction
\* was committed on it nor while the tick height is below that value, and
\* one more register_tick ends it.
C22_Votable ==
    [][\A b \in BankIds : bank[b].live =>
         /\ is_votable(b)
              => /\ \E s \in Signatures : ledger.commits[b][s] > 0
                 /\ bank[b].tick_height = (bank[b].slot + 1) * TicksPerSlot - 1
         /\ ( /\ \E s \in Signatures : ledger.commits[b][s] > 0
              /\ bank[b].tick_height = (bank[b].slot + 1) * TicksPerSlot - 1 )
              => is_votable(b)
         /\ (is_votable(b) /\ last'.op = "register_tick" /\ last'.bank = b)
              => ~is_votable(b)']_vars

\* C23: is_delta is false on a bank just made by genesis or
\* new_from_parent, a batch that commits a transaction sets it, and a batch
\* that is empty or whose transactions were all rejected before execution
\* leaves it as it was.
C23_IsDelta ==
    [][\A b \in BankIds :
         /\ (last'.op = "new_from_parent" /\ last'.bank = b) => ~bank'[b].is_delta
         /\ (last'.op \in BatchOps /\ last'.bank = b)
              => bank'[b].is_delta = (bank[b].is_delta \/ Ran(last'.executed) # {})
         /\ last.op = "init" => \A g \in BankIds : ~bank[g].is_delta]_vars

\* C24: every bank that has a parent has a slot greater than the slot of
\* its parent.
C24_SlotsDecrease ==
    \A b \in BankIds :
       (bank[b].live /\ bank[b].parent # NoBank) => bank[b].slot > bank[bank[b].parent].slot

\* C25: is_in_subtree_of(s) is true exactly when s is the bank's own slot
\* or the slot of a bank on its parent chain.
C25_InSubtree ==
    \A b \in BankIds : bank[b].live =>
       \A s \in Slots :
          is_in_subtree_of(b, s)
            <=> \/ s = bank[b].slot
                \/ \E p \in Range(parents(b)) : bank[p].slot = s

\* C26: every bank that is the parent of a bank is frozen, and the
\* parent_hash of the child is the hash() of that parent.
C26_ParentFrozen ==
    \A b \in BankIds :
       (bank[b].live /\ bank[b].parent # NoBank)
         => /\ is_frozen(bank[b].parent)
            /\ bank[b].parent_hash = bank[bank[b].parent].hash

\* the genesis bank was given a child after every lamport handed out by
\* process_genesis_block had left its fork: it is frozen, and its hash, the
\* parent_hash of the child, covers the accounts of the native programs
C26_Witness ==
    /\ last.op = "new_from_parent"
    /\ \E p \in BankIds :
         /\ bank[last.bank].parent = p
         /\ ledger.ancestry[p] = {}
         /\ Drained(accounts, accounts_id(p))
         /\ has_accounts(accounts, accounts_id(p))
         /\ is_frozen(p)
         /\ bank[last.bank].parent_hash = bank[p].hash

\* epochs asked about for their length
MaxEpoch == 6

\* C28: the epoch of slot s + 1 is the epoch of slot s or the next one, and
\* the length of an epoch never exceeds slots_per_epoch, never shrinks
\* from one epoch to the next and doubles from one warmup epoch to the next.
C28_EpochMonotone ==
    /\ [][thr'.epoch_and_slot_index[1] \in
             {thr.epoch_and_slot_index[1], thr.epoch_and_slot_index[1] + 1}]_vars
    /\ [](\A e \in 0 .. MaxEpoch :
            /\ get_slots_in_epoch(thr.schedule, e) <= get_slots_in_epoch(thr.schedule, e + 1)
            /\ get_slots_in_epoch(thr.schedule, e) <= thr.schedule.slots_per_epoch
            /\ e + 1 < thr.schedule.first_normal_epoch
                 => get_slots_in_epoch(thr.schedule, e + 1)
                      = 2 * get_slots_in_epoch(thr.schedule, e))

\* a schedule with warmup has been asked past its warmup: the epoch has
\* grown with lengths 1, 2, 4 and then slots_per_epoch, which is no power of two
C28_Witness ==
    /\ thr.schedule.first_normal_epoch = 3
    /\ thr.schedule.slots_per_epoch = 6
    /\ thr.slot = thr.schedule.first_normal_slot + thr.schedule.slots_per_epoch
    /\ thr.epoch_and_slot_index = << 4, 0 >>

\* floor(log2(n)) and ceil(log2(n)) for n >= 1
floor_log2(n) == CHOOSE k \in 0 .. n : pow(2, k) <= n /\ n < pow(2, k + 1)
ceil_log2(n) == CHOOSE k \in 0 .. n : pow(2, k) >= n /\ (k = 0 \/ pow(2, k - 1) < n)

\* the normal region of get_epoch_and_slot_index as the claim states it
normal_epoch_and_slot_index(sch, s) ==
    << sch.first_normal_epoch + ((s - sch.first_normal_slot) \div sch.slots_per_epoch),
       (s - sch.first_normal_slot) % sch.slots_per_epoch >>

\* C29 as claimed: in warmup the epoch is 0 for s < 2 and
\* floor(log2(s + 2)) - 1 otherwise, the offset s - (2^epoch - 1).
C29_EpochFloor ==
    thr.epoch_and_slot_index =
       IF thr.slot < thr.schedule.first_normal_slot
       THEN IF thr.slot < 2 THEN << 0, thr.slot >>
            ELSE << floor_log2(thr.slot + 2) - 1,
                    thr.slot - (pow(2, floor_log2(thr.slot + 2) - 1) - 1) >>
       ELSE normal_epoch_and_slot_index(thr.schedule, thr.slot)

\* C29 as amended: in warmup the epoch is s for s < 2 and
\* ceil(log2(s + 2)) - 1 otherwise, the offset s - (2^epoch - 1); in the
\* normal region the epoch is first_normal_epoch + (s - first_normal_slot)
\* / slots_per_epoch and the offset (s - first_normal_slot) mod slots_per_epoch.
C29_EpochCeil ==
    thr.epoch_and_slot_index =
       IF thr.slot < thr.schedule.first_normal_slot
       THEN IF thr.slot < 2 THEN << thr.slot, 0 >>
            ELSE << ceil_log2(thr.slot + 2) - 1,
                    thr.slot - (pow(2, ceil_log2(thr.slot + 2) - 1) - 1) >>
       ELSE normal_epoch_and_slot_index(thr.schedule, thr.slot)

\* a warmup slot for which floor and ceiling of the logarithm differ: slot 4
\* is the second slot of epoch 2
C29_Witness ==
    /\ thr.slot = 4
    /\ thr.slot < thr.schedule.first_normal_slot
    /\ thr.epoch_and_slot_index = << 2, 1 >>
    /\ floor_log2(thr.slot + 2) # ceil_log2(thr.slot + 2)

\* C30: with warmup and stakers_slot_offset <= slots_per_epoch, the stakers
\* epoch of slot s + 1 is that of slot s or the next one; it is epoch(s) + 1
\* in warmup and first_normal_epoch + (s - first_normal_slot +
\* stakers_slot_offset) / slots_per_epoch in the normal region.
C30_StakersContinuous ==
    /\ [][thr.schedule.stakers_slot_offset <= thr.schedule.slots_per_epoch
            => thr'.stakers_epoch \in {thr.stakers_epoch, thr.stakers_epoch + 1}]_vars
    /\ [](thr.stakers_epoch =
            IF thr.slot < thr.schedule.first_normal_slot
            THEN thr.epoch_and_slot_index[1] + 1
            ELSE thr.schedule.first_normal_epoch
                   + ((thr.slot - thr.schedule.first_normal_slot
                         + thr.schedule.stakers_slot_offset)
                        \div thr.schedule.slots_per_epoch))

\* the first normal slot of a schedule with warmup whose offset is the
\* whole epoch: the stakers epoch has gone up by one at the end of the warmup
C30_Witness ==
    /\ thr.schedule.first_normal_slot = 7
    /\ thr.schedule.stakers_slot_offset = thr.schedule.slots_per_epoch
    /\ thr.slot = thr.schedule.first_normal_slot
    /\ thr.stakers_epoch = thr.schedule.first_normal_epoch + 1

\* the epochs a bank has vote accounts saved for
SavedEpochs(b) == { e[1] : e \in bank[b].epoch_vote_accounts }

\* C27: the genesis bank has vote accounts saved for every epoch up to the
\* stakers epoch of slot 0 and every bank for the stakers epoch of its own
\* slot; a child made by new_from_parent has every entry of its parent as
\* it was and at most one more, for its own stakers epoch, holding the vote
\* accounts as they are when the child is made; no other step changes what
\* a bank has saved.
C27_EpochVoteAccounts ==
    /\ [](\A b \in BankIds : bank[b].live =>
            /\ get_stakers_epoch(bank[b].epoch_schedule, bank[b].slot) \in SavedEpochs(b)
            /\ \A e1, e2 \in bank[b].epoch_vote_accounts : e1[1] = e2[1] => e1 = e2)
    /\ [](\A i \in 0 .. get_stakers_epoch(bank[0].epoch_schedule, 0) : i \in SavedEpochs(0))
    /\ [][\A c \in BankIds :
            /\ bank[c].live => bank'[c].epoch_vote_accounts = bank[c].epoch_vote_accounts
            /\ (last'.op = "new_from_parent" /\ last'.bank = c)
               => \A p \in BankIds : bank'[c].parent = p =>
                    /\ bank[p].epoch_vote_accounts \subseteq bank'[c].epoch_vote_accounts
                    /\ bank'[c].epoch_vote_accounts \ bank[p].epoch_vote_accounts
                         = IF get_stakers_epoch(bank[p].epoch_schedule, bank'[c].slot)
                                \in SavedEpochs(p)
                           THEN {}
                           ELSE { << get_stakers_epoch(bank[p].epoch_schedule, bank'[c].slot),
                                     vote_accounts(accounts, accounts_id(p)) >> }]_vars

\* a child that is not the first slot of its epoch has saved the vote
\* accounts for its stakers epoch, which are not those of genesis, and kept
\* what its parent had saved
C27_Witness ==
    /\ last.op = "new_from_parent"
    /\ get_epoch_and_slot_index(bank[last.bank].epoch_schedule, bank[last.bank].slot)[2] # 0
    /\ << get_stakers_epoch(bank[last.bank].epoch_schedule, bank[last.bank].slot),
          vote_accounts(accounts, accounts_id(last.bank)) >>
         \in bank[last.bank].epoch_vote_accounts \ bank[bank[last.bank].parent].epoch_vote_accounts
    /\ vote_accounts(accounts, accounts_id(last.bank)) # vote_accounts(GenesisAccounts, 0)
    /\ bank[0].epoch_vote_accounts # {}
    /\ bank[0].epoch_vote_accounts \subseteq bank[last.bank].epoch_vote_accounts

\* the last operation was process_transaction of a transaction without
\* signatures
UnsignedProcessed ==
    last.op = "process_transaction" /\ last.txs[1].signatures = << >>

\* process_transaction(tx) on bank b leaves the balances as they are and
\* returns res
SameOutcomeAgain(b, tx, res) ==
    \E r \in {process_transactions(b, accounts, status_cache[b], << tx >>)} :
       /\ process_transaction(tx, r.results[1], None) = res
       /\ \A k \in Keys : load_slow(r.A, accounts_id(b), k) = load_slow(accounts, accounts_id(b), k)
       /\ r.cache = status_cache[b]

\* what every process_transaction of a transaction without signatures does:
\* it writes no status cache and changes no balance
UnsignedLeavesNoTrace ==
    [][\A b \in BankIds :
          (last'.op = "process_transaction" /\ last'.bank = b /\ last'.txs[1].signatures = << >>)
          => /\ status_cache' = status_cache
             /\ \A k \in Keys :
                  load_slow(accounts', accounts_id(b), k) = load_slow(accounts, accounts_id(b), k)]_vars

\* C31 as stated: a transaction without signatures is never rejected as
\* DuplicateSignature and never entered into the status cache; with a fee
\* it fails with MissingSignatureForFee, without one process_transaction
\* returns Ok, no balance changes and submitting it again has the same
\* outcome.
C31_ZeroSignatures ==
    /\ UnsignedLeavesNoTrace
    /\ [](UnsignedProcessed =>
            /\ last.results[1] # Err("DuplicateSignature")
            /\ last.txs[1].fee # 0 => last.results[1] = Err("MissingSignatureForFee")
            /\ last.txs[1].fee = 0 => last.results[1] = Ok
            /\ SameOutcomeAgain(last.bank, last.txs[1], last.results[1]))

\* C31: a transaction without signatures is never rejected as
\* DuplicateSignature and never entered into the status cache; it returns
\* AccountInUse when it does not acquire its account locks and
\* BlockhashNotFound when its blockhash is not within the age limit;
\* otherwise with a fee it fails with MissingSignatureForFee, and without
\* one it returns AccountNotFound when its payer has no account and Ok when
\* it has, even when its instruction fails; no balance changes and
\* submitting it again has the same outcome.
C31_ZeroSignaturesPastGates ==
    /\ UnsignedLeavesNoTrace
    /\ [](UnsignedProcessed =>
            /\ last.results[1] # Err("DuplicateSignature")
            /\ IsErr(last.lock_results[1]) => last.results[1] = Err("AccountInUse")
            /\ (IsOk(last.lock_results[1])
                  /\ ~check_hash_age(blockhash_queue[last.bank],
                                     last.txs[1].recent_blockhash, MAX_RECENT_BLOCKHASHES))
               => last.results[1] = Err("BlockhashNotFound")
            /\ (IsOk(last.lock_results[1])
                  /\ check_hash_age(blockhash_queue[last.bank],
                                    last.txs[1].recent_blockhash, MAX_RECENT_BLOCKHASHES))
               => /\ last.txs[1].fee # 0 => last.results[1] = Err("MissingSignatureForFee")
                  /\ (last.txs[1].fee = 0
                        /\ get_balance(last.bank, last.txs[1].account_keys[1]) = 0)
                     => last.results[1] = Err("AccountNotFound")
                  /\ (last.txs[1].fee = 0
                        /\ get_balance(last.bank, last.txs[1].account_keys[1]) # 0)
                     => /\ last.results[1] = Ok
                        /\ last.executed[1].kind = "InstructionError"
            /\ SameOutcomeAgain(last.bank, last.txs[1], last.results[1]))

\* the signed transfer was committed, then the same message without
\* signature and without fee was processed twice: Ok both times although its
\* instruction failed
C31_Witness ==
    /\ UnsignedProcessed
    /\ last.txs[1] = Unsigned_tx(Messages[1])
    /\ last.results[1] = Ok
    /\ last.executed[1].kind = "InstructionError"
    /\ has_signature(0, 1)
    /\ ops = 3
    /\ get_balance(0, "alice") = 1

\* C32: register_tick(h) raises tick_height by exactly 1; h becomes
\* last_blockhash when the new height is the last tick of a slot and the
\* blockhash queue is unchanged when it is not; a status cache shard is
\* opened when the new height is a multiple of NUM_TICKS_PER_SECOND and the
\* status cache is unchanged when it is not; accounts, transaction count and
\* every other bank are unchanged; frozen or not.
C32_RegisterTick ==
    [][\A b \in BankIds, h \in TickHashes :
          RegisterTick(b, h)
          => /\ bank'[b].tick_height = bank[b].tick_height + 1
             /\ IF (bank[b].tick_height + 1) % TicksPerSlot = TicksPerSlot - 1
                THEN /\ blockhash_queue'[b].last_hash = h
                     /\ check_hash_age(blockhash_queue'[b], h, 0)
                ELSE blockhash_queue'[b] = blockhash_queue[b]
             /\ IF (bank[b].tick_height + 1) % NUM_TICKS_PER_SECOND = 0
                THEN /\ Head(status_cache'[b]) = EmptyShard
                     /\ \A i \in 2 .. Len(status_cache'[b]) :
                          status_cache'[b][i] = status_cache[b][i - 1]
                     /\ Len(status_cache'[b]) \in {Len(status_cache[b]) + 1, MAX_CACHE_ENTRIES + 1}
                ELSE status_cache'[b] = status_cache[b]
             /\ accounts' = accounts
             /\ accounts'.tx_count = accounts.tx_count
             /\ bank'[b].hash = bank[b].hash
             /\ \A o \in BankIds \ {b} :
                  /\ bank'[o] = bank[o]
                  /\ blockhash_queue'[o] = blockhash_queue[o]
                  /\ status_cache'[o] = status_cache[o]]_vars

\* a bank was ticked, frozen and ticked again: the first tick made its hash
\* the last blockhash, the second, on the frozen bank, opened a shard and
\* left the blockhash queue alone
C32_Witness ==
    /\ last.op = "register_tick"
    /\ is_frozen(last.bank)
    /\ bank[last.bank].tick_height = 2
    /\ last_blockhash(last.bank) \in TickHashes
    /\ Len(status_cache[last.bank]) = 2

\* the errors of the gates a transaction passes before it is executed
GateErrors ==
    {"AccountInUse", "BlockhashNotFound", "DuplicateSignature", "AccountNotFound",
     "InsufficientFundsForFee"}

\* C33: a process_transactions batch that is empty or in which every
\* transaction failed a gate before execution leaves the accounts written on
\* the bank's fork (get_account_modified_since_parent of every key, the
\* collector's included) as they were, and with them hash_internal_state.
C33_NothingCommitsNothingApplies ==
    [][\A b \in BankIds :
          (/\ last'.op = "process_transactions"
           /\ last'.bank = b
           /\ \A i \in 1 .. Len(last'.txs) : last'.results[i].kind \in GateErrors)
          => /\ \A k \in Keys :
                  load_slow_no_parent(accounts', accounts_id(b), k)
                    = load_slow_no_parent(accounts, accounts_id(b), k)
             /\ accounts_delta(accounts', accounts_id(b)) = accounts_delta(accounts, accounts_id(b))
             /\ hash_internal_state(b, accounts') = hash_internal_state(b, accounts)]_vars

\* the blockhash of tx is not within the age limit of bank b
Stale(b, tx) ==
    ~check_hash_age(blockhash_queue[b], tx.recent_blockhash, MAX_RECENT_BLOCKHASHES)

\* C34: in every batch the first gate a transaction fails decides its error,
\* in the order lock, blockhash age, duplicate signature, load: AccountInUse
\* when it did not get its locks, whatever its blockhash and its signature;
\* else BlockhashNotFound when its blockhash is stale, whatever its
\* signature; else DuplicateSignature when its signature is recorded; else
\* what the load returns; and a transaction that failed a gate is not
\* executed.
C34_GateOrder ==
    [][\A b \in BankIds :
          (last'.op = "process_transactions" /\ last'.bank = b)
          => \A i \in 1 .. Len(last'.txs) :
               /\ last'.results[i] =
                    IF IsErr(last'.lock_results[i]) THEN Err("AccountInUse")
                    ELSE IF Stale(b, last'.txs[i]) THEN Err("BlockhashNotFound")
                    ELSE IF Signed(last'.txs[i]) /\ has_signature(b, last'.txs[i].signatures[1])
                    THEN Err("DuplicateSignature")
                    ELSE IF IsErr(load_tx_accounts(accounts, accounts_id(b), last'.txs[i]).res)
                    THEN load_tx_accounts(accounts, accounts_id(b), last'.txs[i]).res
                    ELSE Ok
               /\ IsErr(last'.results[i]) => last'.executed[i] = last'.results[i]
               /\ (IsErr(last'.results[i]) /\ Len(last'.txs) = 1)
                  => /\ \A k \in Keys : load_slow(accounts', accounts_id(b), k) = get_account(b, k)
                     /\ accounts'.tx_count = accounts.tx_count]_vars

\* a transaction that was committed and whose blockhash has aged out since
\* is submitted again with its locks free: BlockhashNotFound, not
\* DuplicateSignature
C34_Witness ==
    /\ last.op = "process_transactions"
    /\ last.results = << Err("BlockhashNotFound") >>
    /\ IsOk(last.lock_results[1])
    /\ ledger.commits[last.bank][last.txs[1].signatures[1]] > 0
    /\ has_signature(last.bank, last.txs[1].signatures[1])

\* C35: a child made by new_from_parent starts with the last blockhash, the
\* tick height, the ticks per slot and the transaction count of its parent
\* and an empty status cache of its own, and accepts every blockhash its
\* parent accepts at that moment; a register_tick on a child changes neither
\* the blockhash queue nor the tick height of its parent.
C35_ChildStartsFromParent ==
    [][\A c \in BankIds, p \in BankIds :
          /\ (last'.op = "new_from_parent" /\ last'.bank = c /\ bank'[c].parent = p)
             => /\ blockhash_queue'[c].last_hash = last_blockhash(p)
                /\ bank'[c].tick_height = bank[p].tick_height
                /\ bank'[c].ticks_per_slot = bank[p].ticks_per_slot
                /\ accounts'.tx_count[accounts_id(c)] = transaction_count(p)
                /\ status_cache'[c] = EmptyStatusCache
                /\ \A h \in AllHashes :
                     check_hash_age(blockhash_queue[p], h, MAX_RECENT_BLOCKHASHES)
                     => check_hash_age(blockhash_queue'[c], h, MAX_RECENT_BLOCKHASHES)
                /\ blockhash_queue'[p] = blockhash_queue[p]
                /\ bank'[p].tick_height = bank[p].tick_height
          /\ (last'.op = "register_tick" /\ last'.bank = c /\ bank[c].parent = p)
             => /\ bank'[c].tick_height = bank[c].tick_height + 1
                /\ blockhash_queue'[p] = blockhash_queue[p]
                /\ bank'[p].tick_height = bank[p].tick_height]_vars

\* the parent committed a transaction and was ticked once, the child was
\* made and ticked twice: the child has its own blockhash queue and tick
\* height, the parent's are as they were when the child was made
C35_Witness ==
    /\ last.op = "register_tick"
    /\ bank[last.bank].parent = 0
    /\ transaction_count(0) = 1
    /\ transaction_count(last.bank) = 1
    /\ bank[0].tick_height = 1
    /\ bank[last.bank].tick_height = 3
    /\ blockhash_queue[last.bank] # blockhash_queue[0]
    /\ last_blockhash(0) \in TickHashes

\* the other children of the parent of c
Siblings(c) ==
    { d \in Live \ {c} : bank[c].parent # NoBank /\ bank[d].parent = bank[c].parent }

\* C36: a batch processed on a child of a frozen parent changes no account,
\* balance, transaction count or signature status seen through another
\* child of that parent, and it meets DuplicateSignature only for a
\* signature found through the child's own parent chain, so that a
\* transaction committed on one sibling is committed on the other as well.
C36_SiblingsIndependent ==
    [][\A c \in BankIds :
          (last'.op \in BatchOps /\ last'.bank = c /\ c \in Live)
          => /\ \A d \in Siblings(c) : Queries(d)' = Queries(d)
             /\ \A i \in 1 .. Len(last'.txs) :
                  last'.results[i] = Err("DuplicateSignature")
                  => \E a \in {c} \cup Range(parents(c)) :
                       has_signature_cache(status_cache[a], last'.txs[i].signatures[1])]_vars

\* two children of the frozen genesis bank have each committed the same
\* transfer once, the second just now; the parent has not
C36_Witness ==
    /\ last.op = "process_transactions"
    /\ last.results = << Ok >>
    /\ last.executed = << Ok >>
    /\ bank[last.bank].parent = 0
    /\ is_frozen(0)
    /\ \E d \in Siblings(last.bank) :
         /\ ledger.commits[d][last.txs[1].signatures[1]] = 1
         /\ get_signature_status(d, last.txs[1].signatures[1]) = Ok
    /\ ledger.commits[last.bank][last.txs[1].signatures[1]] = 1
    /\ get_signature_status(0, last.txs[1].signatures[1]) = None

\* the lamports of account k, and of all accounts, visible from bank b in
\* the accounts store A
LamportsOf(A, b, k) ==
    IF load_slow(A, accounts_id(b), k) = NoAccount THEN 0 ELSE load_slow(A, accounts_id(b), k)

TotalLamports(A, b) == SumOver([k \in Keys |-> LamportsOf(A, b, k)], Keys)

\* C37: every process_transactions call leaves the sum of the lamports of
\* the accounts visible from the bank as it was, whatever the transactions of
\* the batch end with and whatever their fees; a collector that is in none of
\* the batch's transactions gains exactly the fees of those that were
\* executed.
C37_LamportsConserved ==
    [][\A b \in BankIds :
          (last'.op = "process_transactions" /\ last'.bank = b)
          => /\ TotalLamports(accounts', b) = TotalLamports(accounts, b)
             /\ (\A i \in 1 .. Len(last'.txs) :
                     bank[b].collector_id \notin Range(last'.txs[i].account_keys))
                => LamportsOf(accounts', b, bank[b].collector_id)
                     = LamportsOf(accounts, b, bank[b].collector_id)
                       + FeesOf(last'.txs, Failed(last'.executed) \cup Succeeded(last'.executed))]_vars

\* a batch with a transfer that ran, one that ended with an instruction
\* error and one that failed a gate, and fees paid to the collector
C37_Witness ==
    /\ last.op = "process_transactions"
    /\ Succeeded(last.executed) # {}
    /\ Failed(last.executed) # {}
    /\ \E i \in 1 .. Len(last.txs) : last.executed[i].kind \in GateErrors
    /\ FeesOf(last.txs, Failed(last.executed)) > 0
    /\ FeesOf(last.txs, Succeeded(last.executed)) > 0
    /\ get_balance(last.bank, bank[last.bank].collector_id) > BootstrapLeaderLamports - 1

\* signature s was committed on bank b or on a bank b descends from
CommittedOnAncestry(b, s) ==
    \E a \in {b} \cup ledger.ancestry[b] : ledger.commits[a][s] > 0

\* the signature a call of a thread is about
CallSignature(t) == thr.call[t].txs[1].signatures[1]

\* C38: at every moment, squash running or not, a signature committed on
\* a bank or on one of its ancestors is present for has_signature and
\* get_signature_status of the bank, and a batch that submits it again on
\* the bank gets DuplicateSignature and does not run it: a query that
\* returns has found every signature committed by then, and
\* check_signatures returns DuplicateSignature for it.
C38_VisibleAcrossSquash ==
    [][\A t \in CallThreads :
         /\ (CallQueryReturn(t)
               /\ CommittedOnAncestry(thr.call[t].bank, CallSignature(t)))
            => /\ thr'.call[t].results[1] # None
               /\ thr'.call[t].results[1] # [kind |-> "bool", value |-> FALSE]
         /\ (CallCheckSignatures(t)
               /\ CommittedOnAncestry(thr.call[t].bank, CallSignature(t)))
            => thr'.call[t].gate[1] = Err("DuplicateSignature")]_vars

\* the slots of the epochs before epoch e
RECURSIVE SlotsBefore(_, _)
SlotsBefore(sch, e) ==
    IF e = 0 THEN 0 ELSE SlotsBefore(sch, e - 1) + get_slots_in_epoch(sch, e - 1)

\* C39: the epoch e and offset i of a slot s satisfy i < get_slots_in_epoch(e)
\* and s = i + the slots of all epochs before e, no other pair does, and
\* get_slots_in_epoch(k) is 2^k before first_normal_epoch and
\* slots_per_epoch from there on.
C39_SlotDecomposition ==
    /\ thr.epoch_and_slot_index[2] >= 0
    /\ thr.epoch_and_slot_index[2]
         < get_slots_in_epoch(thr.schedule, thr.epoch_and_slot_index[1])
    /\ thr.slot = thr.epoch_and_slot_index[2]
                    + SlotsBefore(thr.schedule, thr.epoch_and_slot_index[1])
    /\ \A e \in 0 .. MaxEpochSlot : \A i \in 0 .. MaxEpochSlot :
         (i < get_slots_in_epoch(thr.schedule, e)
            /\ thr.slot = i + SlotsBefore(thr.schedule, e))
         => << e, i >> = thr.epoch_and_slot_index
    /\ \A k \in 0 .. MaxEpochSlot :
         get_slots_in_epoch(thr.schedule, k)
           = IF k < thr.schedule.first_normal_epoch THEN pow(2, k)
             ELSE thr.schedule.slots_per_epoch

\* a schedule with warmup whose slots_per_epoch is no power of two, asked
\* at the second slot of its second normal epoch
C39_Witness ==
    /\ thr.schedule.slots_per_epoch = 5
    /\ thr.schedule.first_normal_epoch = 3
    /\ thr.epoch_and_slot_index = << 4, 1 >>
    /\ thr.slot = 13

\* thread t is inside a call
InCall(t) == thr.call[t].pc \notin {"idle", "returned"}

\* C40: every call of process_transactions, register_tick,
\* get_signature_status, freeze and squash that a thread has begun
\* eventually returns, whatever the other threads call, when every thread
\* that can take a step is scheduled.
C40_EveryCallReturns ==
    \A t \in CallThreads : InCall(t) ~> (thr.call[t].pc = "returned")

\* with an RwLock that never holds a reader back for a waiting writer every
\* call returns
EveryCallReturnsReadersFirst ==
    \A t \in CallThreads :
       (InCall(t) /\ ~thr.writers_first) ~> (thr.call[t].pc = "returned")

\* three threads wait for each other: squash holds the read guard of the
\* parent's cache and waits to write its own, a query holds the read guard
\* of the child's cache and waits to read the parent's, and a writer of the
\* parent's cache waits for the guard squash holds
CallsDeadlocked ==
    /\ \A t \in CallThreads : InCall(t)
    /\ \A t \in CallThreads : ~ENABLED CallStep(t)
====
